---------------------------- MODULE Spec2Model ----------------------------
(***************************************************************************)
(* SteganoGuard: the steganographic codecs (generic file appending and PNG *)
(* least-significant-bit embedding) and the decode flow that splits,       *)
(* parses and verifies the embedded payload.                               *)
(*                                                                         *)
(* Byte buffers are sequences of integers 0..255.  JavaScript's 0-based,   *)
(* half-open slice(a, b) is the operator Slice.                            *)
(***************************************************************************)
EXTENDS Integers, Sequences, FiniteSets, TLC

VARIABLES
    gFile,      \* generic codec: the bytes of the file at hand
    gProv,      \* generic codec: how gFile came to be (cover, payload, pristine)
    gResult,    \* generic codec: outcome of the last extractDataFromGenericFile
    pixels,     \* PNG codec: the RGBA pixel buffer (ImageData.data) at hand
    pProv,      \* PNG codec: how the buffer came to be (cover, payload)
    pEmbed,     \* PNG codec: outcome of the last embedDataInPng
    pResult,    \* PNG codec: outcome of the last extractDataFromPng
    stegoFile,  \* decode tab: the selected file
    dRuns,      \* decode tab: the files whose processFile run is in flight
    decodedData,            \* decode tab: the envelope held for decryption, or null
    signatureState,         \* decode tab: "valid", "invalid", "unsigned" or "null"
    dError,                 \* decode tab: error ('' when there is none)
    isLoading,
    password,
    decryptedDecoy,
    decryptedMessage,
    decryptionIdentityName,
    identities,             \* decode tab: the user's identities (local storage)
    dSource,    \* decode tab: the file whose run last wrote the state (history)
    dHandler,   \* decode tab: the decrypt handler in flight, with what it captured
    dDecryptSig,\* decode tab: the signatureState seen by the last handler run that
                \* called a decrypt function, "none" before the first (history)
    kFirst,     \* crypto: a getPublicKeyHash call and what it returned
    kSecond,    \* crypto: a later getPublicKeyHash call and what it returned
    sEnc,       \* crypto: the last encryptSymmetric call and the record it returned
    sDec,       \* crypto: the last decryptSymmetric call on that record
    hEnc,       \* crypto: the last two-recipient encryption and its entries
    hDec,       \* crypto: the last decryptHybrid call on one of those entries
    kObject,    \* crypto: two key objects of any shape and what getPublicKeyHash returned
    rng,        \* crypto: the number of values the random source has handed out
    calls,      \* crypto: the encryption calls made so far, in order (history)
    eForm,      \* encode tab: the inputs of the form
    eLoading,   \* encode tab: isLoading
    eError,     \* encode tab: error ('' when there is none)
    eResult,    \* encode tab: the file offered for download, or null
    eCollapsed, \* encode tab: isFormCollapsed
    eRun,       \* encode tab: the handleEncode run in flight, with what it captured
    eLast       \* encode tab: how the last handleEncode run on this form ended (history)

gvars == <<gFile, gProv, gResult>>
pvars == <<pixels, pProv, pEmbed, pResult>>
dvars == <<stegoFile, dRuns, decodedData, signatureState, dError, isLoading, password,
           decryptedDecoy, decryptedMessage, decryptionIdentityName, identities,
           dSource, dHandler, dDecryptSig>>
cvars == <<kFirst, kSecond, sEnc, sDec, hEnc, hDec>>
kvars == <<kObject, rng, calls>>
evars == <<eForm, eLoading, eError, eResult, eCollapsed, eRun, eLast>>
vars == <<gvars, pvars, dvars, cvars, kvars, evars>>

(* what an action of one component leaves alone *)
notG == <<pvars, dvars, cvars, kvars, evars>>
notP == <<gvars, dvars, cvars, kvars, evars>>
notD == <<gvars, pvars, cvars, kvars, evars>>
notC == <<gvars, pvars, dvars, kvars, evars>>
notK == <<gvars, pvars, dvars, cvars, evars>>
notE == <<gvars, pvars, dvars, cvars, kvars>>

----------------------------------------------------------------------------
(* Bounds of the model *)

MaxCoverLen == 1
MaxPayloadLen == 2
MaxFileLen == 40
MaxPixels == 55
MaxRuns == 2
MaxTextLen == 2
MaxCoordLen == 2
MaxCalls == 3
MaxRecipients == 2
SmallCoverPixels == 100
LargeCoverPixels == 240

(* The byte values covers, payloads and corruptions are drawn from:
   0 and 255 (length-field extremes), 68 = "D" (last byte of the marker),
   1 (a small non-zero length byte). *)
DataBytes == {0, 68}
TamperBytes == {0, 1, 255}

----------------------------------------------------------------------------
(* Byte-buffer helpers *)

Slice(buf, a, b) == SubSeq(buf, a + 1, b)

SeqsUpTo(S, n) == UNION {[1..k -> S] : k \in 0..n}

(* Array.prototype.every over the marker: val === candidate[i] for each i *)
MarkerMatches(marker, candidate) ==
    \A i \in 1..Len(marker) : i <= Len(candidate) /\ candidate[i] = marker[i]

----------------------------------------------------------------------------
(* Generic file codec *)

GENERIC_EOD_MARKER == <<83, 84, 69, 71, 71, 85, 65, 82, 68>>

(* setBigUint64 with littleEndian = true: the same 8 bytes, low byte first *)
setBigUint64LittleEndian(n) ==
    <<n % 256, (n \div 256) % 256, (n \div 65536) % 256, (n \div 16777216) % 256,
      0, 0, 0, 0>>

(* DataView.setBigUint64(0, BigInt(n), false): 8 bytes, big-endian.
   n is a byteLength; the model keeps it below 2^31. *)
setBigUint64(n) ==
    <<0, 0, 0, 0,
      (n \div 16777216) % 256, (n \div 65536) % 256, (n \div 256) % 256, n % 256>>

(* Number(DataView.getBigUint64(0, false)).  The 64-bit value is exact when
   it is below 2^31; any larger value is reported as 2^31 - 1, the largest
   integer of the model: the code only subtracts it from a file offset and
   tests the sign, and every file of the model is far shorter than that. *)
getBigUint64(b) ==
    IF b[1] = 0 /\ b[2] = 0 /\ b[3] = 0 /\ b[4] = 0 /\ b[5] < 128
    THEN b[5] * 16777216 + b[6] * 65536 + b[7] * 256 + b[8]
    ELSE 2147483647

(* A variant of embedDataInGenericFile that writes the length before the
   marker (the footer order of the first revision of the codec). *)
embedLengthBeforeMarker(coverFile, dataToEmbed) ==
    coverFile \o dataToEmbed \o setBigUint64(Len(dataToEmbed)) \o GENERIC_EOD_MARKER

embedDataInGenericFile(coverFile, dataToEmbed) ==
    LET dataLength == Len(dataToEmbed)
        dataLengthBuffer == setBigUint64(dataLength)
    IN  coverFile \o dataToEmbed \o GENERIC_EOD_MARKER \o dataLengthBuffer

Ok(data) == [status |-> "ok", data |-> data]
Err(kind) == [status |-> kind, data |-> <<>>]

(* Variants of the three checks of extractDataFromGenericFile: an
   off-by-one size test, a marker comparison that skips the last marker
   byte, and a length test that also rejects dataStart = 0. *)
TooSmallInclusive(byteLength, footerLength) == byteLength <= footerLength

MarkerMatchesButLast(marker, candidate) ==
    \A i \in 1..(Len(marker) - 1) : i <= Len(candidate) /\ candidate[i] = marker[i]

DataStartNotPositive(dataStart) == dataStart <= 0

(* if (stegoFileBuffer.byteLength < footerLength) *)
IsTooSmall(byteLength, footerLength) == byteLength < footerLength

(* if (!GENERIC_EOD_MARKER.every((val, i) => val === potentialEodMarker[i])) *)
GenericMarkerFound(marker, candidate) == MarkerMatches(marker, candidate)

(* if (dataStart < 0) *)
IsCorruptLength(dataStart) == dataStart < 0

extractDataFromGenericFile(stegoFileBuffer) ==
    LET eodMarkerLength == Len(GENERIC_EOD_MARKER)
        lengthMarkerLength == 8
        footerLength == eodMarkerLength + lengthMarkerLength
        byteLength == Len(stegoFileBuffer)
    IN  IF IsTooSmall(byteLength, footerLength)
        THEN Err("TooSmall")
        ELSE
          LET lengthStart == byteLength - lengthMarkerLength
              markerStart == lengthStart - eodMarkerLength
              lengthData == Slice(stegoFileBuffer, lengthStart, byteLength)
              potentialEodMarker == Slice(stegoFileBuffer, markerStart, lengthStart)
          IN  IF ~GenericMarkerFound(GENERIC_EOD_MARKER, potentialEodMarker)
              THEN Err("MarkerNotFound")
              ELSE
                LET dataLength == getBigUint64(lengthData)
                    dataEnd == markerStart
                    dataStart == dataEnd - dataLength
                IN  IF IsCorruptLength(dataStart)
                    THEN Err("CorruptLength")
                    ELSE Ok(Slice(stegoFileBuffer, dataStart, dataEnd))

----------------------------------------------------------------------------
(* The generic codec as a state machine: a cover is chosen, payloads are
   embedded, the file may be corrupted once, and the file is extracted. *)

NoResult == [status |-> "none", data |-> <<>>]

Payloads == SeqsUpTo(DataBytes, MaxPayloadLen)
RawCovers == SeqsUpTo(DataBytes, MaxCoverLen)

(* a 40-byte cover file and the 6-byte payload "secret" *)
ScenarioCover == [i \in 1..40 |-> (7 * i + 60) % 256]
ScenarioPayload == <<115, 101, 99, 114, 101, 116>>

(* 8-byte length fields a corrupted footer may carry, up to 2^64 - 1 *)
CorruptLengths ==
    {setBigUint64(n) : n \in 0..3} \cup
    { <<255, 255, 255, 255, 255, 255, 255, 255>>,
      <<0, 0, 0, 0, 128, 0, 0, 0>>,
      <<0, 0, 32, 0, 0, 0, 0, 1>>,
      <<128, 0, 0, 0, 0, 0, 0, 0>> }

Raw(c) == [kind |-> "raw", cover |-> c, payload |-> <<>>]
Embedded(c, p) == [kind |-> "embedded", cover |-> c, payload |-> p]
Corrupted == [kind |-> "corrupted", cover |-> <<>>, payload |-> <<>>]

GNewCover(c) ==
    /\ gFile' = c
    /\ gProv' = Raw(c)
    /\ gResult' = NoResult
    /\ UNCHANGED notG

(* a raw cover is embedded into whatever its size; the output of an
   embedding is embedded into again while it stays within MaxFileLen *)
GEmbed(p) ==
    /\ gProv.kind # "corrupted"
    /\ gProv.kind = "raw" \/ Len(gFile) + Len(p) + 17 <= MaxFileLen
    /\ gFile' = embedDataInGenericFile(gFile, p)
    /\ gProv' = Embedded(gFile, p)
    /\ gResult' = NoResult
    /\ UNCHANGED notG

GExtract ==
    /\ gResult = NoResult
    /\ gResult' = extractDataFromGenericFile(gFile)
    /\ UNCHANGED <<gFile, gProv>>
    /\ UNCHANGED notG

(* one corruption of the file: a byte overwritten, the length field
   overwritten, or a byte cut off either end *)
GSetByte(i, b) ==
    /\ gProv.kind # "corrupted"
    /\ i \in 1..Len(gFile)
    /\ gFile[i] # b
    /\ gFile' = [gFile EXCEPT ![i] = b]
    /\ gProv' = Corrupted
    /\ gResult' = NoResult
    /\ UNCHANGED notG

GSetLength(l) ==
    /\ gProv.kind # "corrupted"
    /\ Len(gFile) >= 8
    /\ gFile' = Slice(gFile, 0, Len(gFile) - 8) \o l
    /\ gFile' # gFile
    /\ gProv' = Corrupted
    /\ gResult' = NoResult
    /\ UNCHANGED notG

GTruncate(front) ==
    /\ gProv.kind # "corrupted"
    /\ Len(gFile) >= 1
    /\ gFile' = IF front THEN Tail(gFile) ELSE Slice(gFile, 0, Len(gFile) - 1)
    /\ gProv' = Corrupted
    /\ gResult' = NoResult
    /\ UNCHANGED notG

GNext ==
    \/ \E c \in RawCovers \cup {ScenarioCover} : GNewCover(c)
    \/ \E p \in Payloads \cup {ScenarioPayload} : GEmbed(p)
    \/ GExtract
    \/ \E i \in 1..MaxFileLen, b \in TamperBytes : GSetByte(i, b)
    \/ \E l \in CorruptLengths : GSetLength(l)
    \/ \E front \in BOOLEAN : GTruncate(front)

----------------------------------------------------------------------------
(* PNG least-significant-bit codec.  The pixel buffer is the canvas
   ImageData.data: 4 bytes (R, G, B, A) per pixel; JavaScript index k is
   element k + 1 of the sequence. *)

PNG_BOD_MARKER == <<83, 71, 71, 68>>
(* an end marker whose two halves are the same *)
UniformEndMarker == <<0, 0, 0, 0, 0, 0, 0, 0>>

PNG_EOD_MARKER == <<0, 0, 0, 0, 255, 255, 255, 255>>
HEADER_PIXELS == 11

(* (n >> sh) & 1 for 0 <= n < 2^31 *)
BitAt(n, sh) == IF sh >= 31 THEN 0 ELSE (n \div (2 ^ sh)) % 2

(* the bits of a byte buffer, most significant bit of each byte first:
   bit j of byte i is (byte >> (7 - j)) & 1 *)
BytesToBits(bytes) ==
    [b \in 1..(8 * Len(bytes)) |-> BitAt(bytes[((b - 1) \div 8) + 1], 7 - ((b - 1) % 8))]

(* a variant of the embedding loop that leaves out
       pixels[pixelIndex + 3] = 255 *)
EmbedBitsKeepingAlpha(px, startPixel, bits) ==
    [k1 \in 1..Len(px) |->
        LET k == k1 - 1
            pixel == k \div 4
            ch == k % 4
            first == (pixel - startPixel) * 3
        IN  IF pixel < startPixel \/ ch = 3 THEN px[k1]
            ELSE IF first + ch < Len(bits)
                 THEN (px[k1] - (px[k1] % 2)) + bits[first + ch + 1]
                 ELSE px[k1]]

(* The net effect of one embedding loop
       for each bit b of bits: WriteBit(pixels, startPixel, b, bits[b])
   Every bit has its own colour channel and the alpha writes all store 255,
   so the loop's result is given element by element: element k belongs to
   pixel k \div 4; its colour channel ch carries bit (pixel - startPixel) * 3
   + ch when the loop reaches that bit, and its alpha is set when the loop
   reaches the pixel's first bit. *)
EmbedBits(px, startPixel, bits) ==
    [k1 \in 1..Len(px) |->
        LET k == k1 - 1
            pixel == k \div 4
            ch == k % 4
            first == (pixel - startPixel) * 3
        IN  IF pixel < startPixel THEN px[k1]
            ELSE IF ch = 3
                 THEN IF first < Len(bits) THEN 255 ELSE px[k1]
                 ELSE IF first + ch < Len(bits)
                      THEN (px[k1] - (px[k1] % 2)) + bits[first + ch + 1]
                      ELSE px[k1]]

(* the buffer indices the two embedding loops write for a frame of
   frameLen bytes *)
EmbedWriteIndices(frameLen) ==
    LET at(startPixel, b) == startPixel * 4 + (b \div 3) * 4
    IN  UNION ({ {at(0, b) + 3, at(0, b) + (b % 3)} : b \in 0..31 } \cup
               { {at(HEADER_PIXELS, b) + 3, at(HEADER_PIXELS, b) + (b % 3)} :
                     b \in 0..(8 * frameLen - 1) })

(* Math.ceil(n / 3) and a variant that rounds down *)
FloorThird(n) == n \div 3

CeilThird(n) == (n + 2) \div 3

(* const requiredPixels = HEADER_PIXELS + Math.ceil((fullPayload.length * 8) / 3) *)
RequiredPixels(frameLen) == HEADER_PIXELS + CeilThird(frameLen * 8)

(* a variant that writes the header before it tests the capacity *)
embedHeaderBeforeCheck(px, dataToEmbed) ==
    LET fullPayload == PNG_BOD_MARKER \o dataToEmbed \o PNG_EOD_MARKER
        headerBits == [i \in 1..32 |-> BitAt(Len(dataToEmbed), 32 - i)]
        withHeader == EmbedBits(px, 0, headerBits)
    IN  IF RequiredPixels(Len(fullPayload)) > Len(px) \div 4
        THEN [status |-> "CapacityExceeded", pixels |-> withHeader]
        ELSE [status |-> "ok",
              pixels |-> EmbedBits(withHeader, HEADER_PIXELS, BytesToBits(fullPayload))]

embedDataInPng(px, dataToEmbed) ==
    LET dataLength == Len(dataToEmbed)
        fullPayload == PNG_BOD_MARKER \o dataToEmbed \o PNG_EOD_MARKER
        requiredPixels == RequiredPixels(Len(fullPayload))
        maxPixels == Len(px) \div 4
    IN  IF requiredPixels > maxPixels
        THEN [status |-> "CapacityExceeded", pixels |-> px]
        ELSE
          LET headerBits == [i \in 1..32 |-> BitAt(dataLength, 32 - i)]
              withHeader == EmbedBits(px, 0, headerBits)
          IN  [status |-> "ok",
               pixels |-> EmbedBits(withHeader, HEADER_PIXELS, BytesToBits(fullPayload))]

(* The legacy revision of the encoder: the frame is the payload followed by
   the end marker, without a begin marker; header and loops are the same. *)
legacyEmbedDataInPng(px, dataToEmbed) ==
    LET dataLength == Len(dataToEmbed)
        fullPayload == dataToEmbed \o PNG_EOD_MARKER
        requiredPixels == HEADER_PIXELS + CeilThird(Len(fullPayload) * 8)
        maxPixels == Len(px) \div 4
    IN  IF requiredPixels > maxPixels
        THEN [status |-> "CapacityExceeded", pixels |-> px]
        ELSE
          LET headerBits == [i \in 1..32 |-> BitAt(dataLength, 32 - i)]
              withHeader == EmbedBits(px, 0, headerBits)
          IN  [status |-> "ok",
               pixels |-> EmbedBits(withHeader, HEADER_PIXELS, BytesToBits(fullPayload))]

(* a variant of extractBitsFromImage without the test against pixels.length:
   an element read beyond a typed array is undefined, and undefined & 1 is 0 *)
extractBitsUnchecked(px, startPixel, numBits) ==
    [ok |-> TRUE,
     bits |-> [b \in 1..numBits |->
                 LET k == startPixel * 4 + ((b - 1) \div 3) * 4 + ((b - 1) % 3) + 1
                 IN  IF k <= Len(px) THEN px[k] % 2 ELSE 0]]

Null == [ok |-> FALSE, bits |-> <<>>]

extractBitsFromImage(px, startPixel, numBits) ==
    IF \E b \in 0..(numBits - 1) : startPixel * 4 + (b \div 3) * 4 >= Len(px)
    THEN Null
    ELSE [ok |-> TRUE,
          bits |-> [b \in 1..numBits |->
                      px[startPixel * 4 + ((b - 1) \div 3) * 4 + ((b - 1) % 3) + 1] % 2]]

RECURSIVE BitsValue(_, _, _)
BitsValue(bits, from, n) ==
    IF n = 0 THEN 0 ELSE 2 * BitsValue(bits, from, n - 1) + bits[from + n - 1]

bitsToBytes(bits) ==
    [i \in 1..(Len(bits) \div 8) |-> BitsValue(bits, 8 * (i - 1) + 1, 8)]

(* dataLength = (dataLength << 1) | lengthBits[i], 32 times, in 32-bit signed
   arithmetic: a set top bit makes the result negative *)
HeaderValue(lengthBits) ==
    IF lengthBits[1] = 1
    THEN BitsValue(lengthBits, 2, 31) - 2147483647 - 1
    ELSE BitsValue(lengthBits, 2, 31)

(* variants of the header test: one that lets a zero length pass, one that
   asks for room for the current format's frame of dataLength + 12 bytes *)
HeaderRejectedAllowingZero(dataLength, maxStorableBytes) ==
    dataLength < 0 \/ dataLength > maxStorableBytes

HeaderRejectedForCurrentFrame(dataLength, maxStorableBytes) ==
    dataLength <= 0 \/ dataLength > maxStorableBytes - Len(PNG_BOD_MARKER) - Len(PNG_EOD_MARKER)

(* if (dataLength <= 0 || isNaN(dataLength) || dataLength > maxStorableBytes) *)
HeaderRejected(dataLength, maxStorableBytes) ==
    dataLength <= 0 \/ dataLength > maxStorableBytes

(* a variant of extractDataFromPng that tries the old format before the new *)
extractLegacyFirst(px) ==
    LET lengthBits == extractBitsFromImage(px, 0, 32)
    IN  IF ~lengthBits.ok THEN Err("InvalidHeader")
        ELSE
          LET dataLength == HeaderValue(lengthBits.bits)
              maxStorableBytes == ((Len(px) \div 4 - HEADER_PIXELS) * 3) \div 8
          IN  IF HeaderRejected(dataLength, maxStorableBytes) THEN Err("CorruptHeader")
              ELSE
                LET newFormatBits ==
                        extractBitsFromImage(px, HEADER_PIXELS,
                            (Len(PNG_BOD_MARKER) + dataLength + Len(PNG_EOD_MARKER)) * 8)
                    newBytes == bitsToBytes(newFormatBits.bits)
                    newEod == Len(PNG_BOD_MARKER) + dataLength
                    oldFormatBits ==
                        extractBitsFromImage(px, HEADER_PIXELS,
                            (dataLength + Len(PNG_EOD_MARKER)) * 8)
                    oldBytes == bitsToBytes(oldFormatBits.bits)
                IN  IF /\ oldFormatBits.ok
                       /\ MarkerMatches(PNG_EOD_MARKER,
                                        Slice(oldBytes, dataLength,
                                              dataLength + Len(PNG_EOD_MARKER)))
                    THEN Ok(Slice(oldBytes, 0, dataLength))
                    ELSE IF /\ newFormatBits.ok
                            /\ MarkerMatches(PNG_BOD_MARKER,
                                             Slice(newBytes, 0, Len(PNG_BOD_MARKER)))
                            /\ MarkerMatches(PNG_EOD_MARKER,
                                             Slice(newBytes, newEod,
                                                   newEod + Len(PNG_EOD_MARKER)))
                         THEN Ok(Slice(newBytes, Len(PNG_BOD_MARKER), newEod))
                         ELSE Err("MarkerNotFound")

(* a variant of extractDataFromPng without the fallback to the old format *)
extractCurrentFormatOnly(px) ==
    LET lengthBits == extractBitsFromImage(px, 0, 32)
    IN  IF ~lengthBits.ok THEN Err("InvalidHeader")
        ELSE
          LET dataLength == HeaderValue(lengthBits.bits)
              maxStorableBytes == ((Len(px) \div 4 - HEADER_PIXELS) * 3) \div 8
          IN  IF HeaderRejected(dataLength, maxStorableBytes) THEN Err("CorruptHeader")
              ELSE
                LET newFormatPayloadLength ==
                        Len(PNG_BOD_MARKER) + dataLength + Len(PNG_EOD_MARKER)
                    newFormatBits ==
                        extractBitsFromImage(px, HEADER_PIXELS, newFormatPayloadLength * 8)
                    newBytes == bitsToBytes(newFormatBits.bits)
                    newEod == Len(PNG_BOD_MARKER) + dataLength
                IN  IF /\ newFormatBits.ok
                       /\ MarkerMatches(PNG_BOD_MARKER, Slice(newBytes, 0, Len(PNG_BOD_MARKER)))
                       /\ MarkerMatches(PNG_EOD_MARKER,
                                        Slice(newBytes, newEod, newEod + Len(PNG_EOD_MARKER)))
                    THEN Ok(Slice(newBytes, Len(PNG_BOD_MARKER), newEod))
                    ELSE Err("MarkerNotFound")

extractDataFromPng(px) ==
    LET lengthBits == extractBitsFromImage(px, 0, 32)
    IN  IF ~lengthBits.ok THEN Err("InvalidHeader")
        ELSE
          LET dataLength == HeaderValue(lengthBits.bits)
              maxStorableBytes == ((Len(px) \div 4 - HEADER_PIXELS) * 3) \div 8
          IN  IF HeaderRejected(dataLength, maxStorableBytes) THEN Err("CorruptHeader")
              ELSE
                LET newFormatPayloadLength ==
                        Len(PNG_BOD_MARKER) + dataLength + Len(PNG_EOD_MARKER)
                    newFormatBits ==
                        extractBitsFromImage(px, HEADER_PIXELS, newFormatPayloadLength * 8)
                    newBytes == bitsToBytes(newFormatBits.bits)
                    newEod == Len(PNG_BOD_MARKER) + dataLength
                    oldFormatPayloadLength == dataLength + Len(PNG_EOD_MARKER)
                    oldFormatBits ==
                        extractBitsFromImage(px, HEADER_PIXELS, oldFormatPayloadLength * 8)
                    oldBytes == bitsToBytes(oldFormatBits.bits)
                IN  IF /\ newFormatBits.ok
                       /\ MarkerMatches(PNG_BOD_MARKER, Slice(newBytes, 0, Len(PNG_BOD_MARKER)))
                       /\ MarkerMatches(PNG_EOD_MARKER,
                                        Slice(newBytes, newEod, newEod + Len(PNG_EOD_MARKER)))
                    THEN Ok(Slice(newBytes, Len(PNG_BOD_MARKER), newEod))
                    ELSE IF /\ oldFormatBits.ok
                            /\ MarkerMatches(PNG_EOD_MARKER,
                                             Slice(oldBytes, dataLength,
                                                   dataLength + Len(PNG_EOD_MARKER)))
                         THEN Ok(Slice(oldBytes, 0, dataLength))
                         ELSE Err("MarkerNotFound")

----------------------------------------------------------------------------
(* The PNG codec as a state machine: a cover image is loaded, a payload is
   embedded into its pixel buffer, and the buffer is extracted. *)

PngBytes == {0, 83, 255}
PngPayloads == SeqsUpTo(PngBytes, MaxPayloadLen) \cup {PNG_BOD_MARKER}

(* cover images: a transparent black one, an opaque white one and one whose
   channel values differ from byte to byte *)
CoverPatterns == {"black", "white", "ramp"}
CoverPixels(n, pattern) ==
    [k \in 1..(4 * n) |->
        CASE pattern = "black" -> 0
          [] pattern = "white" -> 255
          [] OTHER -> (37 * k + 11) % 256]

PixelCounts == {9, 10, 11, 12} \cup (42..MaxPixels)

NoEmbed == "none"

PLoadCover(n, pattern) ==
    /\ pProv.kind = "raw"
    /\ pixels' = CoverPixels(n, pattern)
    /\ pProv' = [kind |-> "raw", cover |-> pixels', payload |-> <<>>]
    /\ pEmbed' = NoEmbed
    /\ pResult' = NoResult
    /\ UNCHANGED notP

PEmbed(p) ==
    /\ pProv.kind = "raw"
    /\ pEmbed = NoEmbed
    /\ LET r == embedDataInPng(pixels, p)
       IN  /\ pEmbed' = r.status
           /\ pixels' = r.pixels
           /\ pProv' = [kind |-> IF r.status = "ok" THEN "embedded" ELSE "failed",
                        cover |-> pixels, payload |-> p]
    /\ pResult' = NoResult
    /\ UNCHANGED notP

(* A container written by the legacy revision of the encoder; when that
   encoder throws there is no container, and pEmbed keeps recording the
   current encoder only. *)
PEmbedLegacy(p) ==
    /\ pProv.kind = "raw"
    /\ pEmbed = NoEmbed
    /\ LET r == legacyEmbedDataInPng(pixels, p)
       IN  /\ r.status = "ok"
           /\ pixels' = r.pixels
           /\ pProv' = [kind |-> "legacy", cover |-> pixels, payload |-> p]
    /\ pResult' = NoResult
    /\ UNCHANGED pEmbed
    /\ UNCHANGED notP

(* An image that no encoder of this program wrote: the 32 header slots of
   the image at hand carry the bit top followed by the 31 bits of low. *)
HeaderBits(top, low) == [i \in 1..32 |-> IF i = 1 THEN top ELSE BitAt(low, 32 - i)]

WithHeaderBits(px, headerBits) ==
    [k1 \in 1..Len(px) |->
        LET slot == ((k1 - 1) \div 4) * 3 + ((k1 - 1) % 4)
        IN  IF (k1 - 1) % 4 < 3 /\ slot < 32
            THEN (px[k1] - (px[k1] % 2)) + headerBits[slot + 1]
            ELSE px[k1]]

MaxStorableBytes(px) == ((Len(px) \div 4 - HEADER_PIXELS) * 3) \div 8

HeaderLows == (0..(((MaxPixels - HEADER_PIXELS) * 3) \div 8 + 1)) \cup {2147483647}

PSetHeader(top, low) ==
    /\ pProv.kind \in {"raw", "embedded", "legacy"}
    /\ pResult = NoResult
    /\ Len(pixels) \div 4 >= HEADER_PIXELS
    /\ low \in {0, 1, MaxStorableBytes(pixels), MaxStorableBytes(pixels) + 1, 2147483647}
    /\ pixels' = WithHeaderBits(pixels, HeaderBits(top, low))
    /\ pProv' = [kind |-> "crafted", cover |-> pixels, payload |-> pProv.payload]
    /\ UNCHANGED <<pEmbed, pResult>>
    /\ UNCHANGED notP

PExtract ==
    /\ pResult = NoResult
    /\ pResult' = extractDataFromPng(pixels)
    /\ UNCHANGED <<pixels, pProv, pEmbed>>
    /\ UNCHANGED notP

PNext ==
    \/ \E n \in PixelCounts, pattern \in CoverPatterns : PLoadCover(n, pattern)
    \/ \E p \in PngPayloads : PEmbed(p)
    \/ \E p \in PngPayloads : PEmbedLegacy(p)
    \/ \E top \in {0, 1}, low \in HeaderLows : PSetHeader(top, low)
    \/ PExtract

----------------------------------------------------------------------------
(* The payload buffer of the decode flow.

   The envelope is JSON text and the signature is 64 opaque bytes.  The
   model keeps the text token by token: each element of a payload buffer
   stands for the bytes of one JSON token (a brace, a property name, a
   property value) or for one signature byte.  A signature byte records the
   key that signed and the data signed, so that two signatures agree only
   when both do (Ed25519 taken as unforgeable). *)

SIGNATURE_LENGTH_BYTES == 64
Ed25519SignatureLength == 64

Absent == "undefined"

Open == [t |-> "{", v |-> ""]
Close == [t |-> "}", v |-> ""]
Key(k) == [t |-> "key", v |-> k]
Val(x) == [t |-> "val", v |-> x]
Junk == [t |-> "junk", v |-> ""]
SigByte(by, over, i) == [t |-> "sig", by |-> by, over |-> over, i |-> i]

Object(decoy, messages, senderPublicKey) ==
    [decoy |-> decoy, messages |-> messages, senderPublicKey |-> senderPublicKey]

(* JSON.stringify of an object: its defined properties in the order given *)
Property(k, x) == IF x = Absent THEN <<>> ELSE <<Key(k), Val(x)>>

RECURSIVE Properties(_, _)
Properties(obj, order) ==
    IF order = <<>> THEN <<>>
    ELSE Property(Head(order), obj[Head(order)]) \o Properties(obj, Tail(order))

StringifyInOrder(obj, order) == <<Open>> \o Properties(obj, order) \o <<Close>>

(* handleEncode creates { decoy, messages } and assigns senderPublicKey
   afterwards: JSON.stringify follows that insertion order *)
JSONstringify(obj) == StringifyInOrder(obj, <<"decoy", "messages", "senderPublicKey">>)

(* JSON.parse(arrayBufferToText(buffer)): an object of name/value pairs
   between braces, or a SyntaxError.  A repeated name keeps its last value. *)
WellFormed(cells) ==
    /\ Len(cells) >= 2
    /\ Len(cells) % 2 = 0
    /\ cells[1].t = "{"
    /\ cells[Len(cells)].t = "}"
    /\ \A j \in 1..((Len(cells) - 2) \div 2) :
           cells[2 * j].t = "key" /\ cells[2 * j + 1].t = "val"

Lookup(cells, name) ==
    LET at == {j \in 1..((Len(cells) - 2) \div 2) : cells[2 * j].v = name}
    IN  IF at = {} THEN Absent
        ELSE cells[2 * (CHOOSE j \in at : \A k \in at : k <= j) + 1].v

JSONparse(cells) ==
    IF WellFormed(cells)
    THEN [ok |-> TRUE,
          obj |-> Object(Lookup(cells, "decoy"), Lookup(cells, "messages"),
                         Lookup(cells, "senderPublicKey"))]
    ELSE [ok |-> FALSE, obj |-> Object(Absent, Absent, Absent)]

(* a JavaScript value used as a condition *)
Truthy(x) == x # Absent /\ x # "null"

(* Signing keys in JWK form: the keys of identity A (the sender) and of
   identity E (somebody else), a well-formed key nobody holds the private
   half of, and a JWK that importKey rejects. *)
SigningJwk(id) == IF id = "A" THEN "pkA" ELSE "pkE"
KeyOwner(jwk) ==
    CASE jwk = "pkA" -> "A"
      [] jwk = "pkE" -> "E"
      [] OTHER -> "nobody"

(* importSigningKey: crypto.subtle.importKey throws on a malformed JWK *)
importSigningKey(jwk) ==
    IF jwk \in {"pkA", "pkE", "pkX"} THEN [ok |-> TRUE, key |-> jwk]
    ELSE [ok |-> FALSE, key |-> Absent]

(* signData: crypto.subtle.sign, a 64-byte Ed25519 signature *)
signData(owner, data) == [i \in 1..Ed25519SignatureLength |-> SigByte(owner, data, i)]

(* what a call of verifySignature does: it returns a boolean, or it raises *)
Verified(b) == [raised |-> FALSE, verified |-> b]
VerifyRaised == [raised |-> TRUE, verified |-> FALSE]

(* a verifier that never looks at the data *)
VerifyIgnoringData(publicSigningKey, signature, data) ==
    IF publicSigningKey = Absent THEN VerifyRaised
    ELSE Verified(/\ Len(signature) = Ed25519SignatureLength
                  /\ \A i \in 1..Len(signature) :
                         /\ signature[i].t = "sig"
                         /\ signature[i].by = KeyOwner(publicSigningKey))

(* verifySignature: crypto.subtle.verify rejects (raises) when it is not
   given a key; with a key it resolves to true or false for any signature
   and any data *)
verifySignature(publicSigningKey, signature, data) ==
    IF publicSigningKey = Absent THEN VerifyRaised
    ELSE Verified(/\ Len(signature) = Ed25519SignatureLength
                  /\ KeyOwner(publicSigningKey) # "nobody"
                  /\ \A i \in 1..Len(signature) :
                         signature[i] = SigByte(KeyOwner(publicSigningKey), data, i))

(* a variant that signs the payload before senderPublicKey is assigned *)
BuildPayloadSigningBareEnvelope(decoy, messages, includeSignature, activeIdentity) ==
    IF includeSignature
    THEN JSONstringify(Object(decoy, messages, SigningJwk(activeIdentity)))
             \o signData(activeIdentity, JSONstringify(Object(decoy, messages, Absent)))
    ELSE JSONstringify(Object(decoy, messages, Absent))

(* a variant that assigns senderPublicKey whenever there is an active
   identity, signed or not *)
BuildPayloadAlwaysNamingSender(decoy, messages, includeSignature, activeIdentity) ==
    LET payloadBuffer ==
            JSONstringify(Object(decoy, messages,
                                 IF activeIdentity = "none" THEN Absent
                                 ELSE SigningJwk(activeIdentity)))
    IN  IF includeSignature THEN payloadBuffer \o signData(activeIdentity, payloadBuffer)
        ELSE payloadBuffer

(* handleEncode, steps 3 and 4: the buffer handed to the codec *)
BuildPayload(decoy, messages, includeSignature, activeIdentity) ==
    IF includeSignature
    THEN LET payload == Object(decoy, messages, SigningJwk(activeIdentity))
             payloadBuffer == JSONstringify(payload)
             signature == signData(activeIdentity, payloadBuffer)
         IN  payloadBuffer \o signature
    ELSE JSONstringify(Object(decoy, messages, Absent))

----------------------------------------------------------------------------
(* processFile, after the codec returned extractedBuffer *)

Outcome(state, obj, err) == [state |-> state, data |-> obj, err |-> err]

NoObject == Object(Absent, Absent, Absent)

(* a variant that verifies over the re-serialized envelope *)
SignedDataReserialized(payloadBuffer, data) == JSONstringify(data)

(* the bytes handed to verifySignature as the signed data *)
SignedData(payloadBuffer, data) == payloadBuffer

(* a variant that keeps the envelope of a payload whose signature is invalid *)
InvalidOutcomeKeepingData(data) == Outcome("invalid", data, "")

(* if (verified) { ... 'valid' } else { setDecodedData(null); ... 'invalid' } *)
InvalidOutcome(data) == Outcome("invalid", NoObject, "")

(* a variant that only asks for the sender key to be missing *)
LacksSenderKey(data) == ~Truthy(data.senderPublicKey)

(* if (potentialUnsignedData.decoy && potentialUnsignedData.messages &&
       !potentialUnsignedData.senderPublicKey) *)
IsUnsignedEnvelope(data) ==
    /\ Truthy(data.decoy)
    /\ Truthy(data.messages)
    /\ ~Truthy(data.senderPublicKey)

ClassifyPayload(extractedBuffer) ==
    LET whole == JSONparse(extractedBuffer)
    IN  IF whole.ok /\ IsUnsignedEnvelope(whole.obj)
        THEN Outcome("unsigned", whole.obj, "")
        ELSE IF Len(extractedBuffer) <= SIGNATURE_LENGTH_BYTES
        THEN Outcome("error", NoObject, "TooSmallForSignature")
        ELSE
          LET payloadLength == Len(extractedBuffer) - SIGNATURE_LENGTH_BYTES
              payloadBuffer == Slice(extractedBuffer, 0, payloadLength)
              signatureBuffer == Slice(extractedBuffer, payloadLength, Len(extractedBuffer))
              parsed == JSONparse(payloadBuffer)
              data == parsed.obj
              senderSigningKey == importSigningKey(data.senderPublicKey)
              verified == verifySignature(senderSigningKey.key, signatureBuffer,
                                          SignedData(payloadBuffer, data))
          IN  IF ~parsed.ok THEN Outcome("error", NoObject, "SyntaxError")
              ELSE IF ~Truthy(data.senderPublicKey)
              THEN Outcome("error", NoObject, "MissingSenderKey")
              ELSE IF ~senderSigningKey.ok THEN Outcome("error", NoObject, "KeyImport")
              ELSE IF verified.raised THEN Outcome("error", NoObject, "VerifyRaised")
              ELSE IF verified.verified THEN Outcome("valid", data, "")
              ELSE InvalidOutcome(data)

----------------------------------------------------------------------------
(* The files offered to the decode tab.  A file is described by how its
   payload was made; FilePayload builds the payload buffer and FileBytes the
   file around it.

     signed, unsigned   built by handleEncode (BuildPayload)
   and, made from the payload A signed by someone without A's private key:
     flip      one envelope token damaged by a single bit flip
     sigflip   one signature byte changed
     sigcut    the last bytes of the signature removed
     nokey     the senderPublicKey property removed, signature kept
     strip     the senderPublicKey property and the signature removed
     resign    senderPublicKey replaced by E's key and signed again by E
     reorder   the envelope's properties reordered, signature kept
   and files this system never encoded: a JSON object with a decoy and
   nothing else (nomessages), and files without a payload (foreign). *)

File(type, prov, by, pos, cell) ==
    [type |-> type, prov |-> prov, by |-> by, pos |-> pos, cell |-> cell]

NoFile == File("none", "none", "nobody", 0, Junk)

SignedByA == BuildPayload("d1", "m1", TRUE, "A")
EnvelopeLen(buf) == Len(buf) - Ed25519SignatureLength
EnvelopeOf(buf) == Slice(buf, 0, EnvelopeLen(buf))
SignatureOf(buf) == Slice(buf, EnvelopeLen(buf), Len(buf))

(* what a single bit flip can turn envelope token pos into: a brace stops
   being a brace; a property name becomes another name or breaks the string;
   a value becomes another value or breaks the syntax; the sender's key
   becomes another well-formed key, a JWK that does not import, or breaks
   the syntax *)
FlipCells(buf, pos) ==
    CASE buf[pos].t = "key" -> {Key("other"), Junk}
      [] buf[pos].t = "val" ->
            IF buf[pos - 1].v = "senderPublicKey"
            THEN {Val("pkX"), Val("pk?"), Junk}
            ELSE {Val("changed"), Junk}
      [] OTHER -> {Junk}

TamperKinds == {"flip", "sigflip", "sigcut", "nokey", "strip", "resign", "reorder"}

FlipFiles ==
    UNION { {File("generic", "flip", "A", pos, c) : c \in FlipCells(SignedByA, pos)} :
              pos \in 1..EnvelopeLen(SignedByA) }

StegoFiles ==
    { File("generic", "signed", by, 0, Junk) : by \in {"A", "E"} } \cup
    { File("generic", "unsigned", "nobody", 0, Junk) } \cup
    FlipFiles \cup
    { File("generic", "sigflip", "A", pos, Junk) : pos \in {1, Ed25519SignatureLength} } \cup
    { File("generic", "sigcut", "A", pos, Junk) : pos \in {1, Ed25519SignatureLength} } \cup
    { File("generic", k, "A", 0, Junk) : k \in {"nokey", "strip", "resign", "reorder"} } \cup
    { File("generic", "nomessages", "nobody", 0, Junk),
      File("generic", "twoentries", "nobody", 0, Junk),
      File("generic", "twoentriesreversed", "nobody", 0, Junk),
      File("generic", "foreign", "nobody", 0, Junk),
      File("image/png", "foreign", "nobody", 0, Junk) }

FilePayload(f) ==
    LET base == SignedByA
        env == EnvelopeOf(base)
        obj == JSONparse(env).obj
        bare == JSONstringify(Object(obj.decoy, obj.messages, Absent))
    IN  CASE f.prov = "signed" -> BuildPayload("d1", "m1", TRUE, f.by)
          [] f.prov = "unsigned" -> BuildPayload("d1", "m1", FALSE, f.by)
          [] f.prov = "flip" -> [base EXCEPT ![f.pos] = f.cell]
          [] f.prov = "sigflip" ->
                [base EXCEPT ![EnvelopeLen(base) + f.pos] = SigByte("nobody", <<>>, 0)]
          [] f.prov = "sigcut" -> Slice(base, 0, Len(base) - f.pos)
          [] f.prov = "nokey" -> bare \o SignatureOf(base)
          [] f.prov = "strip" -> bare
          [] f.prov = "resign" -> BuildPayload(obj.decoy, obj.messages, TRUE, "E")
          [] f.prov = "nomessages" -> JSONstringify(Object("d1", Absent, Absent))
          [] f.prov = "twoentries" -> JSONstringify(Object("d1", "m2", Absent))
          [] f.prov = "twoentriesreversed" -> JSONstringify(Object("d1", "m2r", Absent))
          [] f.prov = "reorder" ->
                StringifyInOrder(obj, <<"senderPublicKey", "decoy", "messages">>)
                    \o SignatureOf(base)
          [] OTHER -> <<>>

(* the file on disk: encoded files come from embedDataInGenericFile; the
   foreign generic file is two bytes long *)
FileBytes(f) ==
    IF f.prov = "foreign" THEN <<0, 68>>
    ELSE embedDataInGenericFile(<<0>>, FilePayload(f))

(* the foreign image has 9 pixels *)
FilePixels(f) == CoverPixels(9, "black")

(* processFile, lines 59-109: extraction, then classification *)
ProcessFile(f) ==
    LET extracted == IF f.type = "image/png"
                     THEN extractDataFromPng(FilePixels(f))
                     ELSE extractDataFromGenericFile(FileBytes(f))
    IN  IF extracted.status # "ok"
        THEN Outcome("error", NoObject, extracted.status)
        ELSE ClassifyPayload(extracted.data)

(* the outcome of processFile for each file of the model *)
ProcessOutcomes == [f \in StegoFiles |-> ProcessFile(f)]

ProcessOutcome(f) == ProcessOutcomes[f]

----------------------------------------------------------------------------
(* Text and byte conversions of crypto.ts.

   A JavaScript string is a sequence of UTF-16 code units.  TextEncoder
   first replaces every unpaired surrogate by U+FFFD and joins every
   surrogate pair into one scalar value, then writes UTF-8.  TextDecoder
   reads UTF-8 and drops one leading U+FEFF (ignoreBOM is false). *)

IsHighSurrogate(u) == u >= 55296 /\ u <= 56319
IsLowSurrogate(u) == u >= 56320 /\ u <= 57343

RECURSIVE ToScalars(_)
ToScalars(text) ==
    IF text = <<>> THEN <<>>
    ELSE IF Len(text) >= 2 /\ IsHighSurrogate(text[1]) /\ IsLowSurrogate(text[2])
    THEN <<65536 + ((text[1] - 55296) * 1024) + (text[2] - 56320)>>
             \o ToScalars(SubSeq(text, 3, Len(text)))
    ELSE IF IsHighSurrogate(text[1]) \/ IsLowSurrogate(text[1])
    THEN <<65533>> \o ToScalars(Tail(text))
    ELSE <<text[1]>> \o ToScalars(Tail(text))

Utf8(c) ==
    IF c < 128 THEN <<c>>
    ELSE IF c < 2048 THEN <<192 + (c \div 64), 128 + (c % 64)>>
    ELSE IF c < 65536
    THEN <<224 + (c \div 4096), 128 + ((c \div 64) % 64), 128 + (c % 64)>>
    ELSE <<240 + (c \div 262144), 128 + ((c \div 4096) % 64),
           128 + ((c \div 64) % 64), 128 + (c % 64)>>

RECURSIVE Utf8All(_)
Utf8All(scalars) ==
    IF scalars = <<>> THEN <<>> ELSE Utf8(Head(scalars)) \o Utf8All(Tail(scalars))

(* new TextEncoder().encode(text) *)
textToArrayBuffer(text) == Utf8All(ToScalars(text))

(* the scalar values of well-formed UTF-8; a byte that starts no sequence
   decodes to U+FFFD *)
RECURSIVE FromUtf8(_)
FromUtf8(bytes) ==
    IF bytes = <<>> THEN <<>>
    ELSE LET b == bytes[1]
             n == Len(bytes)
         IN  IF b < 128 THEN <<b>> \o FromUtf8(Tail(bytes))
             ELSE IF b >= 192 /\ b < 224 /\ n >= 2
             THEN <<((b - 192) * 64) + (bytes[2] - 128)>> \o FromUtf8(SubSeq(bytes, 3, n))
             ELSE IF b >= 224 /\ b < 240 /\ n >= 3
             THEN <<((b - 224) * 4096) + ((bytes[2] - 128) * 64) + (bytes[3] - 128)>>
                      \o FromUtf8(SubSeq(bytes, 4, n))
             ELSE IF b >= 240 /\ n >= 4
             THEN <<((b - 240) * 262144) + ((bytes[2] - 128) * 4096)
                        + ((bytes[3] - 128) * 64) + (bytes[4] - 128)>>
                      \o FromUtf8(SubSeq(bytes, 5, n))
             ELSE <<65533>> \o FromUtf8(Tail(bytes))

RECURSIVE ToCodeUnits(_)
ToCodeUnits(scalars) ==
    IF scalars = <<>> THEN <<>>
    ELSE IF Head(scalars) >= 65536
    THEN <<55296 + ((Head(scalars) - 65536) \div 1024),
           56320 + ((Head(scalars) - 65536) % 1024)>> \o ToCodeUnits(Tail(scalars))
    ELSE <<Head(scalars)>> \o ToCodeUnits(Tail(scalars))

(* a decoder that keeps a leading U+FEFF (ignoreBOM: true) *)
DecodeKeepingBOM(buffer) == ToCodeUnits(FromUtf8(buffer))

(* new TextDecoder().decode(buffer) *)
arrayBufferToText(buffer) ==
    LET scalars == FromUtf8(buffer)
    IN  ToCodeUnits(IF scalars # <<>> /\ Head(scalars) = 65279
                    THEN Tail(scalars) ELSE scalars)

(* window.btoa over the bytes: each group of up to three bytes becomes one
   group of four characters; window.atob reads the groups back *)
bufferToBase64(buffer) ==
    [q \in 1..((Len(buffer) + 2) \div 3) |->
        SubSeq(buffer, 3 * q - 2, IF 3 * q <= Len(buffer) THEN 3 * q ELSE Len(buffer))]

RECURSIVE base64ToBuffer(_)
base64ToBuffer(base64) ==
    IF base64 = <<>> THEN <<>> ELSE Head(base64) \o base64ToBuffer(Tail(base64))

----------------------------------------------------------------------------
(* The Web Crypto primitives, taken as ideal.  A derived or agreed key is
   named by what it was derived from; a ciphertext byte records the key, the
   IV and the plaintext it was made from, so that AES-GCM decryption
   succeeds exactly under the same key and IV (the tag fails otherwise). *)

AesGcmTagLength == 16

CipherByte(key, iv, plain, i) == [t |-> "ct", key |-> key, iv |-> iv, plain |-> plain, i |-> i]

(* crypto.subtle.encrypt({ name: 'AES-GCM', iv }, key, plaintext) *)
AesGcmEncrypt(key, iv, plain) ==
    [i \in 1..(Len(plain) + AesGcmTagLength) |-> CipherByte(key, iv, plain, i)]

DecryptOk(bytes) == [ok |-> TRUE, bytes |-> bytes]
OperationError == [ok |-> FALSE, bytes |-> <<>>]

(* a cipher without authentication: under a wrong key it returns bytes
   instead of failing *)
DecryptUnauthenticated(key, iv, ciphertext) ==
    IF Len(ciphertext) < AesGcmTagLength THEN OperationError
    ELSE DecryptOk(ciphertext[1].plain)

(* crypto.subtle.decrypt({ name: 'AES-GCM', iv }, key, ciphertext) *)
AesGcmDecrypt(key, iv, ciphertext) ==
    IF /\ Len(ciphertext) >= AesGcmTagLength
       /\ \A i \in 1..Len(ciphertext) :
              ciphertext[i] = CipherByte(key, iv, ciphertext[1].plain, i)
       /\ Len(ciphertext) = Len(ciphertext[1].plain) + AesGcmTagLength
    THEN DecryptOk(ciphertext[1].plain)
    ELSE OperationError

(* deriveKeyFromPassword: PBKDF2 over the UTF-8 bytes of the password *)
deriveKeyFromPassword(pw, salt) ==
    [kdf |-> "PBKDF2", password |-> textToArrayBuffer(pw), salt |-> salt]

(* ECDH: the key agreed between key pairs a and b *)
EcdhDeriveKey(publicOf, privateOf) == [kdf |-> "ECDH", pairs |-> {publicOf, privateOf}]

(* an ECDH variant in which the recipient's key plays no part *)
EcdhIgnoringRecipient(publicOf, privateOf) ==
    [kdf |-> "ECDH", pairs |-> {publicOf, privateOf} \cap {"e1", "e2"}]

TextOk(text) == [ok |-> TRUE, text |-> text]
TextError == [ok |-> FALSE, text |-> <<>>]

(* encryptSymmetric; salt and iv are the values getRandomValues returned *)
encryptSymmetric(plaintext, pw, salt, iv) ==
    LET key == deriveKeyFromPassword(pw, salt)
        plaintextBuffer == textToArrayBuffer(plaintext)
        ciphertextBuffer == AesGcmEncrypt(key, iv, plaintextBuffer)
    IN  [salt |-> bufferToBase64(salt), iv |-> bufferToBase64(iv),
         ciphertext |-> bufferToBase64(ciphertextBuffer)]

decryptSymmetric(encrypted, pw) ==
    LET salt == base64ToBuffer(encrypted.salt)
        key == deriveKeyFromPassword(pw, salt)
        iv == base64ToBuffer(encrypted.iv)
        ciphertext == base64ToBuffer(encrypted.ciphertext)
        decryptedBuffer == AesGcmDecrypt(key, iv, ciphertext)
    IN  IF decryptedBuffer.ok THEN TextOk(arrayBufferToText(decryptedBuffer.bytes))
        ELSE TextError

(* encryptHybrid for the public key of recipient; ephemeral names the key
   pair generateEncryptionKeyPair returned *)
encryptHybrid(plaintext, recipient, ephemeral, iv) ==
    LET sharedSecret == EcdhDeriveKey(recipient, ephemeral)
        plaintextBuffer == textToArrayBuffer(plaintext)
        ciphertextBuffer == AesGcmEncrypt(sharedSecret, iv, plaintextBuffer)
    IN  [ephemeralPublicKey |-> ephemeral, iv |-> bufferToBase64(iv),
         ciphertext |-> bufferToBase64(ciphertextBuffer)]

(* decryptHybrid with the private key of identity me *)
decryptHybrid(encrypted, me) ==
    LET sharedSecret == EcdhDeriveKey(encrypted.ephemeralPublicKey, me)
        iv == base64ToBuffer(encrypted.iv)
        ciphertext == base64ToBuffer(encrypted.ciphertext)
        decryptedBuffer == AesGcmDecrypt(sharedSecret, iv, ciphertext)
    IN  IF decryptedBuffer.ok THEN TextOk(arrayBufferToText(decryptedBuffer.bytes))
        ELSE TextError

----------------------------------------------------------------------------
(* getPublicKeyHash.  A JWK is a record; a missing member is NoMember.  Member
   values are strings, kept as sequences of character codes; x and y are
   base64url text.  SHA-256 is taken as collision free: a digest is named by
   the bytes digested. *)

Jwk(kty, crv, x, y, key_ops) ==
    [kty |-> kty, crv |-> crv, x |-> x, y |-> y, key_ops |-> key_ops]

KtyEC == <<69, 67>>
KtyOKP == <<79, 75, 80>>
CrvP256 == <<80, 45, 50, 53, 54>>
CrvEd25519 == <<69, 100, 50, 53, 53, 49, 57>>

(* a member the JWK does not have *)
NoMember == <<-1>>

(* a member used as a condition: a non-empty string *)
Present(v) == v # NoMember /\ v # << >>

(* `${a}|${b}|...` *)
RECURSIVE JoinWithBar(_)
JoinWithBar(parts) ==
    IF Len(parts) = 1 THEN parts[1]
    ELSE parts[1] \o <<124>> \o JoinWithBar(Tail(parts))

Sha256(buffer) == [sha256 |-> buffer]

(* each byte as two hex digits *)
bufferToHex(digest) == [hex |-> digest]

HashOk(hash) == [ok |-> TRUE, hash |-> hash]
HashError == [ok |-> FALSE, hash |-> [hex |-> [sha256 |-> NoMember]]]

(* a variant that hashes the x coordinate only, whatever the key type *)
HashOfXOnly(publicKeyJwk) ==
    IF Present(publicKeyJwk.crv) /\ Present(publicKeyJwk.x)
    THEN HashOk(bufferToHex(Sha256(textToArrayBuffer(
             JoinWithBar(<<publicKeyJwk.kty, publicKeyJwk.crv, publicKeyJwk.x>>)))))
    ELSE HashError

(* a variant that tests the key type only; a missing member is written into
   the template string as "undefined" *)
HashTestingTypeOnly(publicKeyJwk) ==
    LET text(v) == IF v = NoMember THEN <<117, 110, 100, 101, 102, 105, 110, 101, 100>> ELSE v
    IN  IF publicKeyJwk.kty = KtyEC
        THEN HashOk(bufferToHex(Sha256(textToArrayBuffer(
                 JoinWithBar(<<publicKeyJwk.kty, text(publicKeyJwk.crv),
                               text(publicKeyJwk.x), text(publicKeyJwk.y)>>)))))
        ELSE IF publicKeyJwk.kty = KtyOKP
        THEN HashOk(bufferToHex(Sha256(textToArrayBuffer(
                 JoinWithBar(<<publicKeyJwk.kty, text(publicKeyJwk.crv),
                               text(publicKeyJwk.x)>>)))))
        ELSE HashError

getPublicKeyHash(publicKeyJwk) ==
    IF /\ publicKeyJwk.kty = KtyEC
       /\ Present(publicKeyJwk.crv) /\ Present(publicKeyJwk.x) /\ Present(publicKeyJwk.y)
    THEN HashOk(bufferToHex(Sha256(textToArrayBuffer(
             JoinWithBar(<<publicKeyJwk.kty, publicKeyJwk.crv,
                           publicKeyJwk.x, publicKeyJwk.y>>)))))
    ELSE IF /\ publicKeyJwk.kty = KtyOKP
            /\ Present(publicKeyJwk.crv) /\ Present(publicKeyJwk.x)
    THEN HashOk(bufferToHex(Sha256(textToArrayBuffer(
             JoinWithBar(<<publicKeyJwk.kty, publicKeyJwk.crv, publicKeyJwk.x>>)))))
    ELSE HashError

(* the public keys of the model: P-256 encryption keys and Ed25519 signing
   keys as exportKey writes them, with coordinates of 1..MaxCoordLen
   base64url characters ("A", "B") and two values of key_ops *)
Coordinates == SeqsUpTo({65, 66}, MaxCoordLen) \ {<< >>}
KeyOps == {"none", "verify"}
PublicJwks ==
    { Jwk(KtyEC, CrvP256, x, y, ops) : x \in Coordinates, y \in Coordinates, ops \in KeyOps }
    \cup { Jwk(KtyOKP, CrvEd25519, x, NoMember, ops) : x \in Coordinates, ops \in KeyOps }

(* Key objects of any shape: a key type that is EC, OKP, RSA or missing; crv,
   x and y present or missing, x also the empty string; the object's other
   members (key_ops) and the order of its properties (layout).  Altered is
   the object with one thing changed. *)
KtyRSA == <<82, 83, 65>>

KeyObject(kty, crv, x, y, key_ops, layout) ==
    [kty |-> kty, crv |-> crv, x |-> x, y |-> y, key_ops |-> key_ops, layout |-> layout]

KeyObjects ==
    { KeyObject(kty, crv, x, y, "none", "kty,crv,x,y") :
        kty \in {KtyEC, KtyOKP, KtyRSA, NoMember}, crv \in {CrvP256, NoMember},
        x \in {<<65>>, << >>, NoMember}, y \in {<<65>>, NoMember} }

Changes == {"none", "layout", "key_ops", "x", "y", "crv"}

Altered(object, change) ==
    CASE change = "layout" -> [object EXCEPT !.layout = "y,x,crv,kty"]
      [] change = "key_ops" -> [object EXCEPT !.key_ops = "verify"]
      [] change = "x" -> [object EXCEPT !.x = <<66>>]
      [] change = "y" -> [object EXCEPT !.y = IF @ = NoMember THEN <<66>> ELSE NoMember]
      [] change = "crv" -> [object EXCEPT !.crv = CrvEd25519]
      [] OTHER -> object

(* the encryption public key of an identity of the decode tab *)
EncryptionJwk(identity) ==
    Jwk(KtyEC, CrvP256, IF identity = "B" THEN <<66>> ELSE <<65>>, <<65>>, "none")

----------------------------------------------------------------------------
(* The crypto functions as a state machine: either a public key is hashed
   and then a public key is hashed again, or a text is encrypted
   under a password and the record decrypted under some password, or a
   text is encrypted for two recipients and an entry decrypted with some
   identity's private key. *)

(* UTF-16 code units: "a", U+FEFF, the surrogate pair of U+1F600, U+FFFD *)
CodeUnits == {97, 65279, 55357, 56832, 65533}
Texts == SeqsUpTo(CodeUnits, MaxTextLen)
Passwords == {<<97>>, <<97, 97>>, <<55357>>, <<56832>>}

(* what crypto.getRandomValues may return: 16-byte salts, 12-byte IVs *)
Salts == {[i \in 1..16 |-> s] : s \in {1, 2}}
Ivs == {[i \in 1..12 |-> 7]}

Recipients == {"A", "B", "C"}
EphemeralPairs == {"e1", "e2"}

NotYet == [done |-> FALSE]

(* no function has been called yet *)
Untouched == ~kFirst.done /\ ~sEnc.done /\ ~hEnc.done /\ ~kObject.done /\ calls = << >>

CHashFirst(jwk) ==
    /\ Untouched
    /\ kFirst' = [done |-> TRUE, jwk |-> jwk, result |-> getPublicKeyHash(jwk)]
    /\ UNCHANGED <<kSecond, sEnc, sDec, hEnc, hDec>>
    /\ UNCHANGED notC

CHashSecond(jwk) ==
    /\ kFirst.done
    /\ ~kSecond.done
    /\ kSecond' = [done |-> TRUE, jwk |-> jwk, result |-> getPublicKeyHash(jwk)]
    /\ UNCHANGED <<kFirst, sEnc, sDec, hEnc, hDec>>
    /\ UNCHANGED notC

(* getPublicKeyHash of a key object and of the object with one change *)
CHashObjects(object, change) ==
    /\ Untouched
    /\ kObject' = [done |-> TRUE, first |-> object, second |-> Altered(object, change),
                   firstResult |-> getPublicKeyHash(object),
                   secondResult |-> getPublicKeyHash(Altered(object, change))]
    /\ UNCHANGED <<rng, calls>>
    /\ UNCHANGED cvars
    /\ UNCHANGED notK

(* The random source.  crypto.getRandomValues and generateKey are taken as
   never repeating: the value handed out at the draw-th request is named by
   draw.  ConstantRandomValues is a source that hands out zeros. *)
ConstantRandomValues(length, draw) == [i \in 1..length |-> 0]

getRandomValues(length, draw) == [i \in 1..length |-> draw]

generateEncryptionKeyPair(draw) ==
    <<"g1", "g2", "g3", "g4", "g5", "g6", "g7", "g8", "g9", "g10">>[draw]

CallTexts == {<<97>>, <<97, 97>>}
CallPasswords == {<<97>>, <<97, 97>>}
CallRecipients == {"A", "B"}

(* no function of the other experiments has been called *)
OnlyCalls == ~kFirst.done /\ ~sEnc.done /\ ~hEnc.done /\ ~kObject.done

(* one more call of encryptSymmetric: the salt is drawn, then the IV *)
CCallEncryptSymmetric(text, pw) ==
    /\ OnlyCalls
    /\ Len(calls) < MaxCalls
    /\ LET salt == getRandomValues(16, rng + 1)
           iv == getRandomValues(12, rng + 2)
       IN  calls' = Append(calls, [fn |-> "encryptSymmetric", text |-> text, pw |-> pw,
                                   to |-> "", salt |-> salt, pair |-> "",
                                   record |-> encryptSymmetric(text, pw, salt, iv)])
    /\ rng' = rng + 2
    /\ UNCHANGED kObject
    /\ UNCHANGED cvars
    /\ UNCHANGED notK

(* one more call of encryptHybrid: the ephemeral key pair is generated, then
   the IV is drawn *)
CCallEncryptHybrid(text, recipient) ==
    /\ OnlyCalls
    /\ Len(calls) < MaxCalls
    /\ LET ephemeral == generateEncryptionKeyPair(rng + 1)
           iv == getRandomValues(12, rng + 2)
       IN  calls' = Append(calls, [fn |-> "encryptHybrid", text |-> text, pw |-> << >>,
                                   to |-> recipient, salt |-> << >>, pair |-> ephemeral,
                                   record |-> encryptHybrid(text, recipient, ephemeral, iv)])
    /\ rng' = rng + 2
    /\ UNCHANGED kObject
    /\ UNCHANGED cvars
    /\ UNCHANGED notK

CEncryptSymmetric(text, pw, salt, iv) ==
    /\ Untouched
    /\ sEnc' = [done |-> TRUE, text |-> text, pw |-> pw,
                encrypted |-> encryptSymmetric(text, pw, salt, iv)]
    /\ sDec' = NotYet
    /\ UNCHANGED <<kFirst, kSecond, hEnc, hDec>>
    /\ UNCHANGED notC

CDecryptSymmetric(pw) ==
    /\ sEnc.done
    /\ ~sDec.done
    /\ sDec' = [done |-> TRUE, pw |-> pw, result |-> decryptSymmetric(sEnc.encrypted, pw)]
    /\ UNCHANGED <<kFirst, kSecond, sEnc, hEnc, hDec>>
    /\ UNCHANGED notC

(* handleEncode, step 2: one encryptHybrid call per recipient, each with its
   own ephemeral key pair *)
CEncryptHybrid(text, first, second, iv) ==
    /\ Untouched
    /\ first # second
    /\ hEnc' = [done |-> TRUE, text |-> text, recipients |-> <<first, second>>,
                entries |-> << encryptHybrid(text, first, "e1", iv),
                               encryptHybrid(text, second, "e2", iv) >>]
    /\ hDec' = NotYet
    /\ UNCHANGED <<kFirst, kSecond, sEnc, sDec>>
    /\ UNCHANGED notC

CDecryptHybrid(entry, me) ==
    /\ hEnc.done
    /\ ~hDec.done
    /\ hDec' = [done |-> TRUE, entry |-> entry, me |-> me,
                result |-> decryptHybrid(hEnc.entries[entry], me)]
    /\ UNCHANGED <<kFirst, kSecond, sEnc, sDec, hEnc>>
    /\ UNCHANGED notC

CNext ==
    \/ \E jwk \in PublicJwks : CHashFirst(jwk)
    \/ \E jwk \in PublicJwks : CHashSecond(jwk)
    \/ \E object \in KeyObjects, change \in Changes : CHashObjects(object, change)
    \/ \E text \in CallTexts, pw \in CallPasswords : CCallEncryptSymmetric(text, pw)
    \/ \E text \in CallTexts, recipient \in CallRecipients : CCallEncryptHybrid(text, recipient)
    \/ \E text \in Texts, pw \in Passwords, salt \in Salts, iv \in Ivs :
           CEncryptSymmetric(text, pw, salt, iv)
    \/ \E pw \in Passwords : CDecryptSymmetric(pw)
    \/ \E text \in Texts, first \in Recipients, second \in Recipients, iv \in Ivs :
           CEncryptHybrid(text, first, second, iv)
    \/ \E entry \in 1..2, me \in Recipients : CDecryptHybrid(entry, me)

----------------------------------------------------------------------------
(* Decryption as the decode tab uses it.  The decoy "d1" was encrypted with
   the password "pw"; the messages "m1" hold one entry for identity B. *)

DecoyText == <<97>>
SecretText == <<97, 97>>

PasswordOf(pw) ==
    CASE pw = "pw" -> <<97, 97>>
      [] pw = "wrong" -> <<97>>
      [] OTHER -> << >>

DecoyOf(decoy) ==
    IF decoy = "d1"
    THEN encryptSymmetric(DecoyText, PasswordOf("pw"), [i \in 1..16 |-> 1], [i \in 1..12 |-> 7])
    ELSE [salt |-> << >>, iv |-> << >>, ciphertext |-> << >>]

(* decryptSymmetric(decodedData.decoy, password), for each decoy and
   password of the model *)
DecoyDecryptions ==
    [decoy \in {"d1", "changed"}, pw \in {"pw", "wrong"} |->
        LET r == decryptSymmetric(DecoyOf(decoy), PasswordOf(pw))
        IN  [ok |-> r.ok,
             text |-> IF r.ok /\ r.text = DecoyText THEN "decoy text" ELSE ""]]

DecryptDecoy(decoy, pw) == DecoyDecryptions[decoy, pw]

(* { recipientPublicKeyHash: recipientKeyHash, ...encrypted } *)
MessageEntry(recipient, ephemeral) ==
    LET encrypted == encryptHybrid(SecretText, recipient, ephemeral, [i \in 1..12 |-> 7])
    IN  [recipientPublicKeyHash |-> getPublicKeyHash(EncryptionJwk(recipient)).hash,
         ephemeralPublicKey |-> encrypted.ephemeralPublicKey,
         iv |-> encrypted.iv, ciphertext |-> encrypted.ciphertext]

MessagesM1 == << MessageEntry("B", "e1") >>

(* an entry that carries the key hash of identity B and a ciphertext that
   was encrypted to A: B's private key does not decrypt it *)
MisaddressedEntry ==
    [MessageEntry("A", "e2") EXCEPT
        !.recipientPublicKeyHash = getPublicKeyHash(EncryptionJwk("B")).hash]

(* the messages arrays of the model's envelopes: "m1" is what handleEncode
   writes for the one recipient B; "m2" and "m2r" hold the same two entries
   in the two orders *)
MessagesOf(messages) ==
    CASE messages = "m1" -> MessagesM1
      [] messages = "m2" -> << MisaddressedEntry, MessageEntry("B", "e1") >>
      [] messages = "m2r" -> << MessageEntry("B", "e1"), MisaddressedEntry >>
      [] messages = "m3" -> << MessageEntry("B", "e1"), MessageEntry("C", "e2") >>
      [] OTHER -> << >>

(* decodedData.messages.find(m => m.recipientPublicKeyHash === myKeyHash):
   the index of the first match, 0 when there is none *)
FindMessage(entries, hash) ==
    LET at == {i \in 1..Len(entries) : entries[i].recipientPublicKeyHash = hash}
    IN  IF at = {} THEN 0 ELSE CHOOSE i \in at : \A k \in at : i <= k

(* the loop of handleMessageDecrypt over identities i..: the first identity
   with an entry that decrypts ends the loop; an entry that fails to decrypt
   leaves its error behind and the loop goes on *)
RECURSIVE TryIdentities(_, _, _, _)
TryIdentities(ids, entries, i, decryptionError) ==
    IF i > Len(ids)
    THEN [found |-> FALSE, text |-> "", name |-> "", attempted |-> decryptionError # "",
          error |-> IF decryptionError # "" THEN decryptionError ELSE "NoMessageFound"]
    ELSE LET at == FindMessage(entries, getPublicKeyHash(EncryptionJwk(ids[i])).hash)
         IN  IF at = 0 THEN TryIdentities(ids, entries, i + 1, decryptionError)
             ELSE IF decryptHybrid(entries[at], ids[i]).ok
             THEN [found |-> TRUE, text |-> "secret text",
                   name |-> ids[i], attempted |-> TRUE, error |-> ""]
             ELSE TryIdentities(ids, entries, i + 1, "CouldNotDecrypt")

(* the loop, for the identity lists and the messages arrays of the model *)
MessageDecryptions ==
    [ids \in {<< >>, <<"B">>}, messages \in {"m1", "m2", "m2r", "m3"} |->
        TryIdentities(ids, MessagesOf(messages), 1, "")]

DecryptMessages(ids, messages) ==
    IF <<ids, messages>> \in DOMAIN MessageDecryptions
    THEN MessageDecryptions[ids, messages]
    ELSE TryIdentities(ids, MessagesOf(messages), 1, "")

----------------------------------------------------------------------------
(* The decode tab as a state machine.  processFile and the two decrypt
   handlers are asynchronous: each starts with its synchronous part (up to
   its first await) and finishes later, other events in between. *)

NullData == [isNull |-> TRUE, obj |-> NoObject]
Data(obj) == [isNull |-> FALSE, obj |-> obj]

NoHandler == [h |-> "none", data |-> NullData, pw |-> "", sig |-> "null"]

(* the files the user selects while another file is still being processed:
   one per outcome of processFile *)
OverlapFiles ==
    { File("generic", "signed", "A", 0, Junk),
      File("generic", "unsigned", "nobody", 0, Junk),
      File("generic", "sigflip", "A", 1, Junk),
      File("generic", "foreign", "nobody", 0, Junk) }

InitDecodeTab ==
    /\ stegoFile = NoFile
    /\ dRuns = {}
    /\ decodedData = NullData
    /\ signatureState = "null"
    /\ dError = ""
    /\ isLoading = FALSE
    /\ password = ""
    /\ decryptedDecoy = ""
    /\ decryptedMessage = ""
    /\ decryptionIdentityName = ""
    /\ identities \in {<< >>, <<"B">>}
    /\ dSource = NoFile
    /\ dHandler = NoHandler
    /\ dDecryptSig = "none"

(* the file input's onChange with a file: setStegoFile, then the effect
   runs processFile up to its first await *)
DSelectFile(f) ==
    /\ Cardinality(dRuns) < MaxRuns
    /\ dRuns # {} => dRuns \cup {f} \subseteq OverlapFiles
    /\ f \notin dRuns
    /\ stegoFile' = f
    /\ dRuns' = dRuns \cup {f}
    /\ isLoading' = TRUE
    /\ dError' = ""
    /\ decodedData' = NullData
    /\ decryptedDecoy' = ""
    /\ decryptedMessage' = ""
    /\ decryptionIdentityName' = ""
    /\ signatureState' = "null"
    /\ password' = ""
    /\ dSource' = NoFile
    /\ UNCHANGED <<identities, dHandler, dDecryptSig>>
    /\ UNCHANGED notD

(* the file dialog closed without a file: setStegoFile(null); processFile
   returns at once *)
DSelectNothing ==
    /\ stegoFile # NoFile
    /\ stegoFile' = NoFile
    /\ UNCHANGED <<dRuns, decodedData, signatureState, dError, isLoading, password,
                   decryptedDecoy, decryptedMessage, decryptionIdentityName,
                   identities, dSource, dHandler, dDecryptSig>>
    /\ UNCHANGED notD

(* the rest of a processFile run, for the file it was started with *)
DFinishProcess(f) ==
    /\ f \in dRuns
    /\ dRuns' = dRuns \ {f}
    /\ LET out == ProcessOutcome(f)
       IN  /\ decodedData' = CASE out.state \in {"valid", "unsigned"} -> Data(out.data)
                               [] out.state = "invalid" ->
                                     IF out.data = NoObject THEN NullData ELSE Data(out.data)
                               [] OTHER -> decodedData
           /\ signatureState' = IF out.state = "error" THEN "null" ELSE out.state
           /\ dError' = IF out.state = "error" THEN "CouldNotReadHiddenData" ELSE dError
    /\ isLoading' = FALSE
    /\ dSource' = f
    /\ UNCHANGED <<stegoFile, password, decryptedDecoy, decryptedMessage,
                   decryptionIdentityName, identities, dHandler, dDecryptSig>>
    /\ UNCHANGED notD

DSetPassword(pw) ==
    /\ ~decodedData.isNull
    /\ password # pw
    /\ password' = pw
    /\ UNCHANGED <<stegoFile, dRuns, decodedData, signatureState, dError, isLoading,
                   decryptedDecoy, decryptedMessage, decryptionIdentityName,
                   identities, dSource, dHandler, dDecryptSig>>
    /\ UNCHANGED notD

(* handleDecoyDecrypt up to its await *)
DInvokeDecoy ==
    /\ dHandler = NoHandler
    /\ IF decodedData.isNull \/ password = ""
       THEN /\ dError' = "PleaseEnterPassword"
            /\ UNCHANGED <<isLoading, dHandler, dDecryptSig>>
       ELSE /\ isLoading' = TRUE
            /\ dError' = ""
            /\ dHandler' = [h |-> "decoy", data |-> decodedData, pw |-> password,
                            sig |-> signatureState]
    /\ UNCHANGED <<stegoFile, dRuns, decodedData, signatureState, password,
                   decryptedDecoy, decryptedMessage, decryptionIdentityName,
                   identities, dSource, dDecryptSig>>
    /\ UNCHANGED notD

(* handleDecoyDecrypt from decryptSymmetric on *)
DFinishDecoy ==
    /\ dHandler.h = "decoy"
    /\ LET r == DecryptDecoy(dHandler.data.obj.decoy, dHandler.pw)
       IN  /\ decryptedDecoy' = IF r.ok THEN r.text ELSE decryptedDecoy
           /\ dError' = IF r.ok THEN dError ELSE "FailedToDecryptDecoy"
    /\ dDecryptSig' = dHandler.sig
    /\ isLoading' = FALSE
    /\ dHandler' = NoHandler
    /\ UNCHANGED <<stegoFile, dRuns, decodedData, signatureState, password,
                   decryptedMessage, decryptionIdentityName, identities, dSource>>
    /\ UNCHANGED notD

(* handleMessageDecrypt up to its first await *)
DInvokeMessage ==
    /\ dHandler = NoHandler
    /\ IF decodedData.isNull
       THEN /\ dError' = "PleaseUploadFileFirst"
            /\ UNCHANGED <<isLoading, dHandler, decryptedMessage, decryptionIdentityName>>
       ELSE IF signatureState = "invalid"
       THEN /\ dError' = "SignatureIsInvalid"
            /\ UNCHANGED <<isLoading, dHandler, decryptedMessage, decryptionIdentityName>>
       ELSE IF Len(identities) = 0
       THEN /\ dError' = "NoIdentitiesFound"
            /\ UNCHANGED <<isLoading, dHandler, decryptedMessage, decryptionIdentityName>>
       ELSE /\ isLoading' = TRUE
            /\ dError' = ""
            /\ decryptedMessage' = ""
            /\ decryptionIdentityName' = ""
            /\ dHandler' = [h |-> "message", data |-> decodedData, pw |-> "",
                            sig |-> signatureState]
    /\ UNCHANGED <<stegoFile, dRuns, decodedData, signatureState, password,
                   decryptedDecoy, identities, dSource, dDecryptSig>>
    /\ UNCHANGED notD

(* handleMessageDecrypt: the loop over the identities and what follows *)
DFinishMessage ==
    /\ dHandler.h = "message"
    /\ LET r == DecryptMessages(identities, dHandler.data.obj.messages)
       IN  /\ decryptedMessage' = IF r.found THEN r.text ELSE decryptedMessage
           /\ decryptionIdentityName' = IF r.found THEN r.name ELSE decryptionIdentityName
           /\ dError' = IF r.found THEN dError ELSE r.error
           /\ dDecryptSig' = IF r.attempted THEN dHandler.sig ELSE dDecryptSig
    /\ isLoading' = FALSE
    /\ dHandler' = NoHandler
    /\ UNCHANGED <<stegoFile, dRuns, decodedData, signatureState, password,
                   decryptedDecoy, identities, dSource>>
    /\ UNCHANGED notD

DNext ==
    \/ \E f \in StegoFiles : DSelectFile(f)
    \/ DSelectNothing
    \/ \E f \in StegoFiles : DFinishProcess(f)
    \/ \E pw \in {"", "pw", "wrong"} : DSetPassword(pw)
    \/ DInvokeDecoy
    \/ DFinishDecoy
    \/ DInvokeMessage
    \/ DFinishMessage

----------------------------------------------------------------------------
(* The encode tab as a state machine.  handleEncode is asynchronous: it runs
   up to its first await when the button is pressed, the per-recipient tasks
   it starts settle one by one in any order, and the rest of the handler runs
   when the last one has settled.

   Texts are taken as given (the decoy is "d1" of the decode tab's model, the
   secret is SecretText); the envelope is the token sequence of the JSON
   model, the name of its messages array standing for the entries built.
   The optional visible stamp is left out: it is drawn on the canvas before
   the pixel buffer is read. *)

(* the recipients of the form: contacts B and C, and a contact X whose
   stored encryption key has no x member *)
ContactKey(recipient) ==
    IF recipient = "X" THEN Jwk(KtyEC, CrvP256, NoMember, <<65>>, "none")
    ELSE EncryptionJwk(recipient)

(* importEncryptionKey: crypto.subtle.importKey throws on a JWK that is not
   a P-256 public key *)
importEncryptionKey(keyData) ==
    [ok |-> /\ keyData.kty = KtyEC /\ keyData.crv = CrvP256
            /\ keyData.x # NoMember /\ keyData.y # NoMember]

(* one task of the Promise.all: it throws when the key does not import or
   cannot be hashed *)
TaskFails(recipient) ==
    \/ ~importEncryptionKey(ContactKey(recipient)).ok
    \/ ~getPublicKeyHash(ContactKey(recipient)).ok

(* whether the task fails, for each contact of the model *)
FailingTasks == [recipient \in {"B", "C", "X"} |-> TaskFails(recipient)]

(* the ephemeral key pair encryptHybrid generates in the i-th task *)
TaskEphemeral(i) == <<"e1", "e2", "e3">>[i]

(* a variant in which the tasks share one recipientKeyHash variable, written
   by the task that settles first *)
TaskResultSharedHash(recipients, order, i) ==
    [MessageEntry(recipients[i], TaskEphemeral(i)) EXCEPT
        !.recipientPublicKeyHash = getPublicKeyHash(ContactKey(recipients[order[1]])).hash]

(* what the i-th task returns: { recipientPublicKeyHash, ...encrypted }; the
   order in which the tasks settled plays no part *)
TaskResult(recipients, order, i) == MessageEntry(recipients[i], TaskEphemeral(i))

(* Promise.all resolves to the results in the order of the recipients *)
PromiseAll(recipients, order) ==
    [i \in 1..Len(recipients) |-> TaskResult(recipients, order, i)]

(* the token of the JSON model that stands for a messages array *)
NameOfMessages(entries) ==
    IF \E name \in {"m1", "m3"} : MessagesOf(name) = entries
    THEN CHOOSE name \in {"m1", "m3"} : MessagesOf(name) = entries
    ELSE "m?"

(* the cover files of the form: none, a file that is not an image, an image
   of SmallCoverPixels pixels and an image of LargeCoverPixels pixels *)
Covers == {"none", "file", "small image", "large image"}

CoverImagePixels(cover) ==
    CoverPixels(IF cover = "small image" THEN SmallCoverPixels ELSE LargeCoverPixels, "ramp")

(* the bytes of the serialized payload are not modelled; the PNG encoder is
   run on as many bytes as the payload has tokens *)
AsBytes(length) == [i \in 1..length |-> 83]

(* embedDataInPng on each image cover, for each payload length: its status,
   and whether a failed call left the pixel buffer as it was *)
PngEmbeddings ==
    [cover \in {"small image", "large image"}, length \in 1..(8 + Ed25519SignatureLength) |->
        LET r == embedDataInPng(CoverImagePixels(cover), AsBytes(length))
        IN  [status |-> r.status,
             untouched |-> r.status # "ok" /\ r.pixels = CoverImagePixels(cover)]]

(* handleEncode, step 5.  For an image the outcome of embedDataInPng is
   kept as its status and whether the pixel buffer is still the cover's; the
   file it returns is kept as the payload it holds (the PNG codec returns
   the payload it was given when the payload has at least one byte,
   PngRoundTripNonEmpty). *)
EmbedInCover(cover, dataToEmbed) ==
    IF cover = "file"
    THEN [status |-> "ok", isImage |-> FALSE, untouched |-> TRUE,
          file |-> embedDataInGenericFile(<<0>>, dataToEmbed)]
    ELSE LET r == PngEmbeddings[IF cover = "none" THEN "small image" ELSE cover,
                                Len(dataToEmbed)]
         IN  [status |-> r.status, isImage |-> TRUE, untouched |-> r.untouched,
              file |-> IF r.status = "ok" THEN dataToEmbed ELSE << >>]

(* the payload the decode tab extracts from a result file *)
ExtractFromResult(result) ==
    IF result.isImage THEN [status |-> "ok", data |-> result.file]
    ELSE extractDataFromGenericFile(result.file)

TextFields == {"all", "none", "no decoy", "no password", "no secret"}
RecipientLists == {<< >>, <<"B">>, <<"B", "C">>, <<"B", "X">>}

Form(cover, texts, recipients, includeSignature, activeIdentity) ==
    [cover |-> cover, texts |-> texts, recipients |-> recipients,
     includeSignature |-> includeSignature, activeIdentity |-> activeIdentity]

(* contacts belong to the active identity; without one the only recipient
   is a validated new recipient *)
Forms ==
    { f \in [cover : Covers, texts : TextFields, recipients : RecipientLists,
             includeSignature : BOOLEAN, activeIdentity : {"none", "A"}] :
        f.activeIdentity = "none" => f.recipients \in {<< >>, <<"B">>} }

EmptyForm == Form("none", "none", << >>, TRUE, "none")

NoEncodeResult == [isNull |-> TRUE, isImage |-> FALSE, file |-> << >>]
NoRun == [phase |-> "idle", form |-> EmptyForm, pending |-> {}, order |-> << >>]
NoLast == [outcome |-> "none", order |-> << >>, failed |-> 0, messages |-> << >>,
           dataToEmbed |-> << >>, embed |-> "none", untouched |-> TRUE]

(* steps 3 to 5 of handleEncode for the form and the order in which the
   tasks settled: the messages, the payload and the outcome of embedding it *)
Assemble(form, order) ==
    LET encryptedMessages == PromiseAll(form.recipients, order)
        dataToEmbed == BuildPayload("d1", NameOfMessages(encryptedMessages),
                                    form.includeSignature /\ form.activeIdentity # "none",
                                    form.activeIdentity)
    IN  [messages |-> encryptedMessages, dataToEmbed |-> dataToEmbed,
         embedded |-> EmbedInCover(form.cover, dataToEmbed)]

(* the same, for every form that passes the validation and every order in
   which its tasks can settle *)
Assemblies ==
    { <<run[1], run[2], Assemble(run[1], run[2])>> :
          run \in { r \in Forms \X {<<1>>, <<1, 2>>, <<2, 1>>} :
                       r[1].cover # "none" /\ Len(r[1].recipients) = Len(r[2]) } }

Assembled(form, order) ==
    (CHOOSE t \in Assemblies : t[1] = form /\ t[2] = order)[3]

InitEncodeTab ==
    /\ eForm \in {EmptyForm, Form("none", "none", << >>, TRUE, "A")}
    /\ eLoading = FALSE
    /\ eError = ""
    /\ eResult = NoEncodeResult
    /\ eCollapsed = FALSE
    /\ eRun = NoRun
    /\ eLast = NoLast

(* the form's inputs: one field is changed at a time.  The form is hidden
   once a result is shown.  A run in flight works on the values it captured
   when the button was pressed, so changes during a run are left out. *)
EChangeForm(form) ==
    /\ ~eCollapsed /\ ~eLoading
    /\ form \in Forms
    /\ Cardinality({k \in DOMAIN form : form[k] # eForm[k]}) = 1
    /\ eForm' = form
    /\ eLast' = NoLast
    /\ UNCHANGED <<eLoading, eError, eResult, eCollapsed, eRun>>
    /\ UNCHANGED notE

(* the Encode button: handleEncode up to its first await *)
EInvokeEncode ==
    /\ ~eCollapsed
    /\ ~(eLoading \/ (eForm.includeSignature /\ eForm.activeIdentity = "none"))
    /\ IF eForm.includeSignature /\ eForm.activeIdentity = "none"
       THEN /\ eError' = "PleaseSetActiveIdentity"
            /\ eLast' = [NoLast EXCEPT !.outcome = "returned"]
            /\ UNCHANGED <<eLoading, eResult, eRun>>
       ELSE IF \/ eForm.cover = "none" \/ eForm.texts # "all"
               \/ Len(eForm.recipients) = 0
       THEN /\ eError' = "PleaseCompleteAllFields"
            /\ eLast' = [NoLast EXCEPT !.outcome = "returned"]
            /\ UNCHANGED <<eLoading, eResult, eRun>>
       ELSE /\ eLoading' = TRUE
            /\ eError' = ""
            /\ eResult' = NoEncodeResult
            /\ eRun' = [phase |-> "decoy", form |-> eForm, pending |-> {}, order |-> << >>]
            /\ eLast' = NoLast
    /\ UNCHANGED <<eForm, eCollapsed>>
    /\ UNCHANGED notE

(* step 1: encryptSymmetric(decoyMessage, password) settles; step 2 starts
   one task per recipient *)
EEncryptDecoy ==
    /\ eRun.phase = "decoy"
    /\ eRun' = [eRun EXCEPT !.phase = "tasks",
                            !.pending = 1..Len(eRun.form.recipients)]
    /\ UNCHANGED <<eForm, eLoading, eError, eResult, eCollapsed, eLast>>
    /\ UNCHANGED notE

(* a variant without the finally block *)
ECatchWithoutFinally(last) ==
    /\ eError' = "EncodingFailed"
    /\ eRun' = NoRun
    /\ eLast' = last
    /\ UNCHANGED <<eForm, eLoading, eResult, eCollapsed>>

(* the catch block and the finally block *)
ECatch(last) ==
    /\ eError' = "EncodingFailed"
    /\ eLoading' = FALSE
    /\ eRun' = NoRun
    /\ eLast' = last
    /\ UNCHANGED <<eForm, eResult, eCollapsed>>

(* the task of the i-th recipient settles.  When it throws, Promise.all
   rejects and the handler goes to its catch block; the tasks still pending
   settle later without any effect on the state. *)
ETaskSettles(i) ==
    /\ eRun.phase = "tasks"
    /\ i \in eRun.pending
    /\ IF FailingTasks[eRun.form.recipients[i]]
       THEN ECatch([NoLast EXCEPT !.outcome = "failed", !.failed = i,
                                  !.order = Append(eRun.order, i)])
       ELSE /\ eRun' = [eRun EXCEPT !.pending = eRun.pending \ {i},
                                    !.order = Append(eRun.order, i)]
            /\ UNCHANGED <<eForm, eLoading, eError, eResult, eCollapsed, eLast>>
    /\ UNCHANGED notE

(* steps 3 to 5, once every task has settled: the payload is assembled,
   signed if requested, and embedded *)
EAssembleAndEmbed ==
    /\ eRun.phase = "tasks"
    /\ eRun.pending = {}
    /\ LET assembled == Assembled(eRun.form, eRun.order)
           encryptedMessages == assembled.messages
           dataToEmbed == assembled.dataToEmbed
           embedded == assembled.embedded
           last == [NoLast EXCEPT !.order = eRun.order, !.messages = encryptedMessages,
                                  !.embed = embedded.status,
                                  !.untouched = embedded.untouched]
       IN  IF embedded.status = "ok"
           THEN /\ eResult' = [isNull |-> FALSE, isImage |-> embedded.isImage,
                               file |-> embedded.file]
                /\ eCollapsed' = TRUE
                /\ eLoading' = FALSE
                /\ eRun' = NoRun
                /\ eLast' = [last EXCEPT !.outcome = "ok", !.dataToEmbed = dataToEmbed]
                /\ UNCHANGED <<eForm, eError>>
           ELSE ECatch([last EXCEPT !.outcome = "failed"])
    /\ UNCHANGED notE

(* the Start Over button, shown with the result: handleReset *)
EReset ==
    /\ ~eResult.isNull
    /\ eForm' = [eForm EXCEPT !.cover = "none", !.texts = "none", !.recipients = << >>]
    /\ eError' = ""
    /\ eResult' = NoEncodeResult
    /\ eCollapsed' = FALSE
    /\ eLast' = NoLast
    /\ UNCHANGED <<eLoading, eRun>>
    /\ UNCHANGED notE

ENext ==
    \/ \E form \in Forms : EChangeForm(form)
    \/ EInvokeEncode
    \/ EEncryptDecoy
    \/ \E i \in 1..MaxRecipients : ETaskSettles(i)
    \/ EAssembleAndEmbed
    \/ EReset

----------------------------------------------------------------------------
(* Properties of the generic file codec *)

Extracted == gResult.status # "none"

(* f is C \o P \o marker \o length(P) for some cover C and payload P *)
IsEmbedOutput(f) ==
    \E n \in 0..(Len(f) - 17) :
        f = embedDataInGenericFile(Slice(f, 0, Len(f) - 17 - n),
                                   Slice(f, Len(f) - 17 - n, Len(f) - 17))

HasMarker(f) ==
    /\ Len(f) >= 17
    /\ Slice(f, Len(f) - 17, Len(f) - 8) = GENERIC_EOD_MARKER

LengthField(f) == Slice(f, Len(f) - 8, Len(f))

(* the unsigned 64-bit big-endian value of the 8 bytes b exceeds n (n < 2^24) *)
LengthExceeds(b, n) ==
    \/ \E i \in 1..5 : b[i] # 0
    \/ b[6] * 65536 + b[7] * 256 + b[8] > n

LengthLow(b) == b[6] * 65536 + b[7] * 256 + b[8]

(* C1: extracting a file produced by embedDataInGenericFile(C, P) returns
   exactly P, for every cover C (empty, or itself ending with a marker and a
   length field) and every payload P (empty included). *)
C1_GenericRoundTrip ==
    (gProv.kind = "embedded" /\ Extracted) => gResult = Ok(gProv.payload)

C1_Witness ==
    /\ gProv.kind = "embedded"
    /\ gResult.status = "ok"
    /\ gProv.payload = <<>>
    /\ HasMarker(gProv.cover)
    /\ extractDataFromGenericFile(gProv.cover).status = "ok"

(* C8 as stated: extraction of any byte sequence that embedDataInGenericFile
   did not produce fails with MarkerNotFound. *)
C8_Original ==
    (Extracted /\ ~IsEmbedOutput(gFile)) => gResult.status = "MarkerNotFound"

(* C8 as amended: extraction of a byte sequence that embedDataInGenericFile
   did not produce never returns data; it fails with TooSmall below 17
   bytes, with MarkerNotFound when bytes [len-17, len-8) are not the marker,
   and with CorruptLength otherwise. *)
C8_NonEmbedFails ==
    (Extracted /\ ~IsEmbedOutput(gFile)) =>
        gResult = Err(IF Len(gFile) < 17 THEN "TooSmall"
                      ELSE IF ~HasMarker(gFile) THEN "MarkerNotFound"
                      ELSE "CorruptLength")

C8_Witness ==
    /\ gProv.kind = "corrupted"
    /\ Len(gFile) >= 17
    /\ ~IsEmbedOutput(gFile)
    /\ gResult.status = "MarkerNotFound"

(* C9: every input shorter than 17 bytes fails with TooSmall whatever its
   content (the size test comes before the marker and length tests), and an
   input of exactly 17 bytes is never rejected as TooSmall. *)
C9_TooSmall ==
    Extracted =>
        /\ Len(gFile) < 17 => gResult = Err("TooSmall")
        /\ Len(gFile) = 17 => gResult.status # "TooSmall"

(* a 16-byte file that still carries the whole marker *)
C9_Witness ==
    /\ gResult.status = "TooSmall"
    /\ Len(gFile) = 16
    /\ \E k \in 0..7 : Slice(gFile, k, k + 9) = GENERIC_EOD_MARKER

(* C10: with the marker at [len-17, len-8), a trailing length above len-17
   (any value up to 2^64-1) fails with CorruptLength and returns no data; a
   length of at most len-17 returns exactly that many bytes, those
   immediately before the marker. *)
C10_CorruptLength ==
    (Extracted /\ HasMarker(gFile)) =>
        IF LengthExceeds(LengthField(gFile), Len(gFile) - 17)
        THEN gResult = Err("CorruptLength")
        ELSE gResult = Ok(Slice(gFile,
                                Len(gFile) - 17 - LengthLow(LengthField(gFile)),
                                Len(gFile) - 17))

C10_Witness ==
    /\ HasMarker(gFile)
    /\ LengthField(gFile) = <<255, 255, 255, 255, 255, 255, 255, 255>>
    /\ gResult = Err("CorruptLength")

(* C11: the output of embedDataInGenericFile(C, P) is C, then P, then the
   9 bytes "STEGGUARD", then |P| as 8 big-endian bytes: |C| + |P| + 17
   bytes in all (63 for a 40-byte cover and a 6-byte payload), the first
   |C| of them being C unchanged. *)
C11_EmbedLayout ==
    gProv.kind = "embedded" =>
        LET C == gProv.cover
            P == gProv.payload
        IN  /\ Len(gFile) = Len(C) + Len(P) + 17
            /\ Slice(gFile, 0, Len(C)) = C
            /\ Slice(gFile, Len(C), Len(C) + Len(P)) = P
            /\ Slice(gFile, Len(C) + Len(P), Len(C) + Len(P) + 9) =
                   <<83, 84, 69, 71, 71, 85, 65, 82, 68>>
            /\ Slice(gFile, Len(C) + Len(P) + 9, Len(gFile)) =
                   <<0, 0, 0, 0, 0, 0, 0, Len(P)>>
            /\ (Len(C) = 40 /\ Len(P) = 6) => Len(gFile) = 63

C11_Witness ==
    /\ gProv = Embedded(ScenarioCover, ScenarioPayload)
    /\ Len(gFile) = 63
    /\ gResult = Ok(ScenarioPayload)

----------------------------------------------------------------------------
(* Properties of the PNG codec *)

PngExtracted == pResult.status # "none"

TotalPixels == Len(pProv.cover) \div 4

(* C2: for every payload P (of any length, zero included) embedded by
   embedDataInPng into a cover with enough pixels, extractDataFromPng of the
   resulting pixel buffer returns exactly P. *)
C2_PngRoundTrip ==
    (pProv.kind = "embedded" /\ PngExtracted) => pResult = Ok(pProv.payload)

(* the round trip of the payloads of at least one byte *)
PngRoundTripNonEmpty ==
    (pProv.kind = "embedded" /\ PngExtracted /\ Len(pProv.payload) >= 1) =>
        pResult = Ok(pProv.payload)

(* C3: embedDataInPng succeeds exactly when the cover has at least
   N = 11 + ceil((4 + |P| + 8) * 8 / 3) pixels, that is when 3 * (pixels - 11)
   >= 8 * (|P| + 12); it fails with CapacityExceeded otherwise; and when it
   succeeds every index it writes lies inside the pixel buffer. *)
C3_CapacityBoundary ==
    pEmbed # NoEmbed =>
        LET enough == 3 * (TotalPixels - 11) >= 8 * (Len(pProv.payload) + 12)
        IN  /\ pEmbed = (IF enough THEN "ok" ELSE "CapacityExceeded")
            /\ pEmbed = "ok" =>
                 \A k \in EmbedWriteIndices(Len(pProv.payload) + 12) :
                     k >= 0 /\ k < Len(pProv.cover)

(* a cover of exactly N pixels, whose last pixel is written *)
C3_Witness ==
    /\ pEmbed = "ok"
    /\ 3 * (TotalPixels - 12) < 8 * (Len(pProv.payload) + 12)
    /\ \E k \in EmbedWriteIndices(Len(pProv.payload) + 12) :
           k \div 4 = TotalPixels - 1

(* The least significant bit of slot s of a pixel buffer; the slots are the
   colour channels in buffer order, R, G, B of pixel 0, then of pixel 1, ... *)
SlotLsb(px, s) == px[4 * (s \div 3) + (s % 3) + 1] % 2

(* the number written in n slots from slot from on, first slot most significant *)
RECURSIVE SlotsValue(_, _, _, _)
SlotsValue(px, from, n, acc) ==
    IF n = 0 THEN acc ELSE SlotsValue(px, from + 1, n - 1, 2 * acc + SlotLsb(px, from))

HasHeader == Len(pixels) \div 4 >= 11

HeaderTop == SlotLsb(pixels, 0)

HeaderLow == SlotsValue(pixels, 1, 31, 0)

HeaderCapacity == ((Len(pixels) \div 4 - 11) * 3) \div 8

(* C16: for an image of at least 11 pixels whose 32 header bits read zero,
   a value with the top bit set, or a value greater than
   floor((totalPixels - 11) * 3 / 8), extractDataFromPng fails with
   CorruptHeader and returns no data. *)
C16_CorruptHeader ==
    (PngExtracted /\ HasHeader) =>
        ((HeaderTop = 1 \/ HeaderLow = 0 \/ HeaderLow > HeaderCapacity) =>
            pResult = [status |-> "CorruptHeader", data |-> <<>>])

(* a header one above the capacity, and the three cases each *)
C16_Witness ==
    /\ PngExtracted /\ HasHeader
    /\ HeaderTop = 0 /\ HeaderLow = HeaderCapacity + 1
    /\ pResult.status = "CorruptHeader"

C16_WitnessZero ==
    PngExtracted /\ HasHeader /\ HeaderTop = 0 /\ HeaderLow = 0 /\ HeaderCapacity > 0

C16_WitnessTopBit ==
    PngExtracted /\ HasHeader /\ HeaderTop = 1 /\ HeaderLow = 1

C16_WitnessAccepted ==
    /\ PngExtracted /\ HasHeader
    /\ HeaderTop = 0 /\ HeaderLow = HeaderCapacity /\ HeaderLow > 0
    /\ pResult.status # "CorruptHeader"

(* the buffer indices extractBitsFromImage reads before it returns *)
ExtractReads(px, startPixel, numBits) ==
    { startPixel * 4 + (b \div 3) * 4 + (b % 3) :
        b \in { b \in 0..(numBits - 1) :
                 \A c \in 0..b : startPixel * 4 + (c \div 3) * 4 < Len(px) } }

(* C17: on an image of fewer than 11 pixels extractDataFromPng fails with
   InvalidHeader and every index it reads lies inside the pixel buffer; on
   an image of exactly 11 pixels it does not fail with InvalidHeader. *)
C17_SmallImage ==
    PngExtracted =>
        /\ Len(pixels) \div 4 < 11 =>
              /\ pResult = [status |-> "InvalidHeader", data |-> <<>>]
              /\ \A k \in ExtractReads(pixels, 0, 32) : k >= 0 /\ k < Len(pixels)
        /\ Len(pixels) \div 4 = 11 => pResult.status # "InvalidHeader"

(* an image of 10 pixels: 30 of the 32 header bits are read before the
   failure *)
C17_Witness ==
    /\ PngExtracted
    /\ Len(pixels) \div 4 = 10
    /\ Cardinality(ExtractReads(pixels, 0, 32)) = 30
    /\ pResult.status = "InvalidHeader"

C17_WitnessEleven ==
    PngExtracted /\ Len(pixels) \div 4 = 11 /\ pResult.status = "CorruptHeader"

(* The bytes of the frame, read from the slots of pixel 11 on, each byte most
   significant bit first: byte j (from 0) lies in slots 33 + 8j .. 33 + 8j + 7.
   n bytes can be read when the pixel of their last bit exists. *)
FrameAvailable(n) == 11 + ((8 * n - 1) \div 3) < Len(pixels) \div 4

FrameByte(j) == SlotsValue(pixels, 33 + 8 * j, 8, 0)

FrameBytes(a, b) == [i \in 1..(b - a) |-> FrameByte(a + i - 1)]

HeaderAccepted == HasHeader /\ HeaderTop = 0 /\ HeaderLow >= 1 /\ HeaderLow <= HeaderCapacity

CurrentFormatMatches ==
    /\ FrameAvailable(HeaderLow + 12)
    /\ FrameBytes(0, 4) = <<83, 71, 71, 68>>
    /\ FrameBytes(4 + HeaderLow, 12 + HeaderLow) = <<0, 0, 0, 0, 255, 255, 255, 255>>

LegacyFormatMatches ==
    /\ FrameAvailable(HeaderLow + 8)
    /\ FrameBytes(HeaderLow, HeaderLow + 8) = <<0, 0, 0, 0, 255, 255, 255, 255>>

(* C18: with an accepted header length L, extractDataFromPng returns the L
   bytes after the begin marker when bytes [0,4) of the frame are 'SGGD' and
   bytes [4+L, 12+L) are the end marker; otherwise the first L bytes when
   bytes [L, L+8) are the end marker; otherwise it fails with
   MarkerNotFound.  It returns no data unless an end marker matched at one
   of the two offsets. *)
C18_FormatSelection ==
    (PngExtracted /\ HeaderAccepted) =>
        /\ pResult =
             (IF CurrentFormatMatches
              THEN [status |-> "ok", data |-> FrameBytes(4, 4 + HeaderLow)]
              ELSE IF LegacyFormatMatches
                   THEN [status |-> "ok", data |-> FrameBytes(0, HeaderLow)]
                   ELSE [status |-> "MarkerNotFound", data |-> <<>>])
        /\ pResult.status = "ok" => (CurrentFormatMatches \/ LegacyFormatMatches)

(* the begin marker is there and the current format's bytes can be read, but
   the end marker is at the legacy offset only: the legacy bytes are returned *)
C18_Witness ==
    /\ PngExtracted /\ HeaderAccepted
    /\ FrameAvailable(HeaderLow + 12)
    /\ FrameBytes(0, 4) = <<83, 71, 71, 68>>
    /\ ~CurrentFormatMatches /\ LegacyFormatMatches
    /\ pResult = [status |-> "ok", data |-> FrameBytes(0, HeaderLow)]

C18_WitnessCurrent ==
    PngExtracted /\ HeaderAccepted /\ CurrentFormatMatches /\ pResult.status = "ok"

(* an accepted header over a frame written for another length *)
C18_WitnessNone ==
    /\ PngExtracted /\ HeaderAccepted
    /\ pProv.kind = "crafted" /\ FrameBytes(0, 4) = <<83, 71, 71, 68>>
    /\ pResult.status = "MarkerNotFound"

(* C19: every container of the legacy encoder (header L >= 1, payload and end
   marker from pixel 11, no begin marker) decodes with extractDataFromPng to
   exactly its payload, also when the payload begins with 'SGGD' and when
   the image has exactly the pixels of the legacy frame. *)
C19_LegacyRoundTrip ==
    (pProv.kind = "legacy" /\ PngExtracted /\ Len(pProv.payload) >= 1) =>
        pResult = [status |-> "ok", data |-> pProv.payload]

(* a legacy payload that begins with 'SGGD' in an image large enough for
   the current format's bytes to be read *)
C19_Witness ==
    /\ pProv.kind = "legacy" /\ PngExtracted
    /\ Len(pProv.payload) >= 4
    /\ SubSeq(pProv.payload, 1, 4) = <<83, 71, 71, 68>>
    /\ FrameAvailable(Len(pProv.payload) + 12)
    /\ pResult.status = "ok"

(* an image of exactly the pixels of the legacy frame *)
C19_WitnessExactFit ==
    /\ pProv.kind = "legacy" /\ PngExtracted
    /\ Len(pProv.payload) >= 1
    /\ Len(pixels) \div 4 = 11 + ((8 * (Len(pProv.payload) + 8) + 2) \div 3)
    /\ ~FrameAvailable(Len(pProv.payload) + 12)
    /\ pResult.status = "ok"

(* the two acceptance conditions of extractDataFromPng for the header length
   of the buffer at hand, with the program's markers *)
CurrentAcceptance ==
    /\ FrameAvailable(HeaderLow + Len(PNG_BOD_MARKER) + Len(PNG_EOD_MARKER))
    /\ FrameBytes(0, Len(PNG_BOD_MARKER)) = PNG_BOD_MARKER
    /\ FrameBytes(Len(PNG_BOD_MARKER) + HeaderLow,
                  Len(PNG_BOD_MARKER) + HeaderLow + Len(PNG_EOD_MARKER)) = PNG_EOD_MARKER

LegacyAcceptance ==
    /\ FrameAvailable(HeaderLow + Len(PNG_EOD_MARKER))
    /\ FrameBytes(HeaderLow, HeaderLow + Len(PNG_EOD_MARKER)) = PNG_EOD_MARKER

(* C28: for every pixel buffer with an accepted header length L the
   current-format condition (begin marker at [0,4), end marker at
   [4+L, 12+L)) and the legacy condition (end marker at [L, L+8)) do not
   both hold, and what extractDataFromPng returns is what it would return
   if the legacy format were tried first. *)
C28_FormatsExclusive ==
    HeaderAccepted =>
        /\ ~(CurrentAcceptance /\ LegacyAcceptance)
        /\ PngExtracted => pResult = extractLegacyFirst(pixels)

(* a legacy frame that begins with the begin marker, in an image where the
   bytes of the current format can be read *)
C28_Witness ==
    /\ HeaderAccepted /\ PngExtracted
    /\ FrameAvailable(HeaderLow + 12)
    /\ FrameBytes(0, 4) = PNG_BOD_MARKER
    /\ LegacyAcceptance /\ ~CurrentAcceptance
    /\ pResult.status = "ok"

(* The frame of a payload and the bit each slot is to carry: header slot s
   (0..31) carries bit 31 - s of the length, frame slot s (counted from the
   red channel of pixel 11) carries bit 7 - s % 8 of frame byte s \div 8. *)
FrameOf(payload) == <<83, 71, 71, 68>> \o payload \o <<0, 0, 0, 0, 255, 255, 255, 255>>

HeaderSlotBit(length, s) == IF s = 0 THEN 0 ELSE (length \div (2 ^ (31 - s))) % 2

FrameSlotBit(frame, s) == (frame[(s \div 8) + 1] \div (2 ^ (7 - (s % 8)))) % 2

(* what element k (from 0) of the buffer is to be after a successful
   embedding of payload into before *)
EmbeddedElement(before, payload, k) ==
    LET pixel == k \div 4
        ch == k % 4
        old == before[k + 1]
        frameBits == 8 * Len(FrameOf(payload))
        frameSlot == 3 * (pixel - 11) + ch
        touched == pixel <= 10 \/ 3 * (pixel - 11) < frameBits
    IN  IF ch = 3 THEN (IF touched THEN 255 ELSE old)
        ELSE IF pixel <= 10
             THEN IF 3 * pixel + ch < 32
                  THEN 2 * (old \div 2) + HeaderSlotBit(Len(payload), 3 * pixel + ch)
                  ELSE old
             ELSE IF frameSlot < frameBits
                  THEN 2 * (old \div 2) + FrameSlotBit(FrameOf(payload), frameSlot)
                  ELSE old

(* C20: a successful embedDataInPng changes the pixel buffer only so: the
   least significant bit of R, G, B of the 32 header slots (pixels 0-10,
   length most significant bit first) and of the frame slots from pixel 11
   is the embedded bit, the alpha of each of those pixels is 255; the upper
   7 bits of every colour channel, the blue channel of pixel 10, the unused
   channels of the last frame pixel and every pixel from index
   11 + ceil(frameBits / 3) on are unchanged. *)
C20_EmbedFrameEffect ==
    (pProv.kind = "embedded" /\ pEmbed = "ok") =>
        /\ Len(pixels) = Len(pProv.cover)
        /\ \A k \in 0..(Len(pixels) - 1) :
               pixels[k + 1] = EmbeddedElement(pProv.cover, pProv.payload, k)
        /\ \A k \in 0..(Len(pixels) - 1) :
               /\ k % 4 # 3 => pixels[k + 1] \div 2 = pProv.cover[k + 1] \div 2
               /\ k = 42 => pixels[k + 1] = pProv.cover[k + 1]
               /\ k \div 4 >= 11 + ((8 * (Len(pProv.payload) + 12) + 2) \div 3) =>
                      pixels[k + 1] = pProv.cover[k + 1]

(* The embedding loops run bit by bit, as the code runs them: each step is
       pixels[i + 3] = 255; pixels[i + c] = (pixels[i + c] & 0xFE) | bit
   WriteBit is one step for bit number n counted from startPixel; HeaderLoop
   is the loop over the 32 bits of the length, FrameLoop the loop over the
   bytes of the frame with ByteLoop its inner loop over the 8 bits. *)
WriteBit(px, startPixel, n, bit) ==
    LET i == startPixel * 4 + (n \div 3) * 4
        c == n % 3
        opaque == [px EXCEPT ![i + 3 + 1] = 255]
    IN  [opaque EXCEPT ![i + c + 1] = 2 * (opaque[i + c + 1] \div 2) + bit]

RECURSIVE HeaderLoop(_, _, _)
HeaderLoop(px, dataLength, i) ==
    IF i >= 32 THEN px
    ELSE HeaderLoop(WriteBit(px, 0, i, BitAt(dataLength, 31 - i)), dataLength, i + 1)

RECURSIVE ByteLoop(_, _, _, _)
ByteLoop(px, byte, i, j) ==
    IF j >= 8 THEN px
    ELSE ByteLoop(WriteBit(px, HEADER_PIXELS, 8 * i + j, BitAt(byte, 7 - j)), byte, i, j + 1)

RECURSIVE FrameLoop(_, _, _)
FrameLoop(px, fullPayload, i) ==
    IF i >= Len(fullPayload) THEN px
    ELSE LET written == ByteLoop(px, fullPayload[i + 1], i, 0)
         IN  (* a store into a typed array leaves its length as it is *)
             IF Len(written) = Len(px) THEN FrameLoop(written, fullPayload, i + 1) ELSE px

EmbedLoopsAgree ==
    (pProv.kind = "embedded" /\ pEmbed = "ok") =>
        pixels = FrameLoop(HeaderLoop(pProv.cover, Len(pProv.payload), 0),
                           FrameOf(pProv.payload), 0)

(* a cover that is not opaque, a frame whose last pixel has an unused
   channel, and pixels after the frame *)
C20_Witness ==
    /\ pProv.kind = "embedded" /\ pEmbed = "ok"
    /\ pProv.cover[4] # 255 /\ pixels[4] = 255
    /\ (8 * (Len(pProv.payload) + 12)) % 3 # 0
    /\ Len(pixels) \div 4 > 11 + ((8 * (Len(pProv.payload) + 12) + 2) \div 3)
    /\ pixels # pProv.cover


----------------------------------------------------------------------------
(* Properties of the decode flow *)

(* the payload buffer the codec extracts from the file the state came from *)
ExtractedBuffers ==
    [f \in StegoFiles \cup {NoFile} |-> extractDataFromGenericFile(FileBytes(f)).data]

SourceBuffer == ExtractedBuffers[dSource]
SourceEnvelope == Slice(SourceBuffer, 0, Len(SourceBuffer) - SIGNATURE_LENGTH_BYTES)
SourceSignature ==
    Slice(SourceBuffer, Len(SourceBuffer) - SIGNATURE_LENGTH_BYTES, Len(SourceBuffer))

(* processFile gets as far as verifySignature: the candidate envelope parses,
   names a sender key, and the key imports *)
ReachesVerification ==
    /\ JSONparse(SourceEnvelope).ok
    /\ Truthy(JSONparse(SourceEnvelope).obj.senderPublicKey)
    /\ importSigningKey(JSONparse(SourceEnvelope).obj.senderPublicKey).ok

(* C4: after a single bit flip in the envelope bytes of a payload signed by
   A, verifySignature over the flipped envelope and the signature returns
   false without raising, under A's key and under the key the flipped
   envelope names; the decode flow never reports the file as valid, and
   reports it as invalid whenever it gets as far as verifySignature. *)
C4_TamperDetection ==
    dSource.prov = "flip" =>
        /\ verifySignature(importSigningKey(SigningJwk("A")).key,
                           SourceSignature, SourceEnvelope) = Verified(FALSE)
        /\ signatureState # "valid"
        /\ ReachesVerification =>
              /\ verifySignature(
                     importSigningKey(JSONparse(SourceEnvelope).obj.senderPublicKey).key,
                     SourceSignature, SourceEnvelope) = Verified(FALSE)
              /\ signatureState = "invalid"

C4_Witness ==
    /\ dSource.prov = "flip"
    /\ dSource.cell = Val("changed")
    /\ signatureState = "invalid"

(* C5: whenever signatureState is 'invalid', decodedData is null, and no
   decrypt handler called while the state is 'invalid' goes on to decrypt:
   a handler in flight, and the last handler run that called a decrypt
   function, saw a signatureState other than 'invalid' and an envelope. *)
C5_InvalidDisablesDecryption ==
    /\ signatureState = "invalid" => decodedData.isNull
    /\ dHandler # NoHandler => dHandler.sig # "invalid" /\ ~dHandler.data.isNull
    /\ dDecryptSig # "invalid"

C5_Witness ==
    /\ signatureState = "invalid"
    /\ dError = "PleaseUploadFileFirst"
    /\ dHandler = NoHandler

(* C6: whenever signatureState is 'valid', the buffer extracted from the
   file is longer than 64 bytes, decodedData is the envelope parsed from all
   but its last 64 bytes, and verifySignature returns true for the key that
   envelope names, the last 64 bytes as signature and exactly the bytes
   before them as data. *)
C6_ValidOnlyIfVerified ==
    signatureState = "valid" =>
        /\ dSource # NoFile
        /\ Len(SourceBuffer) > SIGNATURE_LENGTH_BYTES
        /\ JSONparse(SourceEnvelope).ok
        /\ decodedData = Data(JSONparse(SourceEnvelope).obj)
        /\ importSigningKey(decodedData.obj.senderPublicKey).ok
        /\ verifySignature(importSigningKey(decodedData.obj.senderPublicKey).key,
                           SourceSignature, SourceEnvelope) = Verified(TRUE)

C6_Witness ==
    /\ signatureState = "valid"
    /\ dSource = File("generic", "signed", "A", 0, Junk)
    /\ ~decodedData.isNull

(* C15 as stated: whenever the whole extracted buffer parses as JSON and the
   object has no senderPublicKey, the file is classified 'unsigned' and the
   object is held as the envelope. *)
C15_Original ==
    (dSource # NoFile /\ JSONparse(SourceBuffer).ok
        /\ JSONparse(SourceBuffer).obj.senderPublicKey = Absent) =>
        /\ signatureState = "unsigned"
        /\ decodedData = Data(JSONparse(SourceBuffer).obj)

(* C15 as amended: a file is classified 'unsigned' exactly when its whole
   extracted buffer parses as JSON and the object has a decoy and messages
   and no senderPublicKey; the object is then held as the envelope and
   verifySignature is not called (the state is neither 'valid' nor
   'invalid').  A buffer that parses without senderPublicKey but lacks a
   decoy or messages is handled as a signed payload and ends in an error. *)
C15_UnsignedClassification ==
    dSource # NoFile =>
        LET whole == JSONparse(SourceBuffer)
        IN  IF /\ whole.ok
               /\ Truthy(whole.obj.decoy) /\ Truthy(whole.obj.messages)
               /\ ~Truthy(whole.obj.senderPublicKey)
            THEN signatureState = "unsigned" /\ decodedData = Data(whole.obj)
            ELSE /\ signatureState # "unsigned"
                 /\ (whole.ok /\ whole.obj.senderPublicKey = Absent) =>
                        signatureState = "null"

C15_Witness ==
    /\ dSource = File("generic", "unsigned", "nobody", 0, Junk)
    /\ signatureState = "unsigned"
    /\ decodedData = Data(Object("d1", "m1", Absent))

(* C7: a file whose payload was made from A's signed payload without A's
   private key (envelope bytes changed, signature bytes changed or removed,
   senderPublicKey removed) is never reported as valid or as unsigned. *)
C7_TamperingNeverAccepted ==
    dSource.prov \in TamperKinds => signatureState \notin {"valid", "unsigned"}

----------------------------------------------------------------------------
(* Properties of the encryption functions *)

(* what a text becomes on its way through TextEncoder and TextDecoder *)
Utf8RoundTrip(text) == arrayBufferToText(textToArrayBuffer(text))

(* C12: of the two entries made by encrypting one plaintext for two distinct
   recipients, decryptHybrid returns the plaintext for an entry and the
   private key of the recipient it was made for, and fails, returning no
   text, for an entry and the private key of anyone else. *)
C12_RecipientIndependence ==
    hDec.done =>
        IF hEnc.recipients[hDec.entry] = hDec.me
        THEN hDec.result = TextOk(hEnc.text)
        ELSE hDec.result = TextError

(* the same with the plaintext as UTF-8 carries it *)
HybridUpToUtf8 ==
    hDec.done =>
        IF hEnc.recipients[hDec.entry] = hDec.me
        THEN hDec.result = TextOk(Utf8RoundTrip(hEnc.text))
        ELSE hDec.result = TextError

(* C13: decryptSymmetric of the record encryptSymmetric(text, pw) made
   returns text under pw, and under any other password fails and returns no
   text. *)
C13_DecoyRoundTrip ==
    sDec.done =>
        IF sDec.pw = sEnc.pw
        THEN sDec.result = TextOk(sEnc.text)
        ELSE sDec.result = TextError

(* the same with text and passwords as UTF-8 carries them *)
SymmetricUpToUtf8 ==
    sDec.done =>
        IF textToArrayBuffer(sDec.pw) = textToArrayBuffer(sEnc.pw)
        THEN sDec.result = TextOk(Utf8RoundTrip(sEnc.text))
        ELSE sDec.result = TextError

(* two JWKs of the same public key: same type, curve and coordinates *)
SamePublicKey(j, k) == j.kty = k.kty /\ j.crv = k.crv /\ j.x = k.x /\ j.y = k.y

(* C14: two calls of getPublicKeyHash return the same hash when they are
   given the same public key, and different hashes when they are given two
   distinct public keys. *)
C14_HashDeterminism ==
    (kFirst.done /\ kSecond.done) =>
        /\ kFirst.result.ok /\ kSecond.result.ok
        /\ SamePublicKey(kFirst.jwk, kSecond.jwk) <=>
               kFirst.result.hash = kSecond.result.hash

(* two P-256 keys with the same x and different y *)
C14_Witness ==
    /\ kFirst.done /\ kSecond.done
    /\ kFirst.jwk.kty = KtyEC /\ kSecond.jwk.kty = KtyEC
    /\ kFirst.jwk.x = kSecond.jwk.x
    /\ kFirst.jwk.y # kSecond.jwk.y
    /\ kFirst.result.hash # kSecond.result.hash

(* the key and the IV an encryption call used, as its ciphertext shows them *)
UsedKey(call) == base64ToBuffer(call.record.ciphertext)[1].key

UsedIv(call) == base64ToBuffer(call.record.ciphertext)[1].iv

(* C24: across any sequence of encryptSymmetric and encryptHybrid calls, no
   (key, IV) pair is used for two encryptions, no two encryptSymmetric calls
   use the same salt, no two encryptHybrid calls the same ephemeral key
   pair; the record of encryptSymmetric stores the salt and IV it used, and
   decryptSymmetric derives the key from that salt. *)
C24_FreshSaltAndIv ==
    /\ \A i \in 1..Len(calls) : \A j \in 1..Len(calls) :
          i < j =>
            /\ ~(UsedKey(calls[i]) = UsedKey(calls[j]) /\ UsedIv(calls[i]) = UsedIv(calls[j]))
            /\ UsedIv(calls[i]) # UsedIv(calls[j])
            /\ (calls[i].fn = "encryptSymmetric" /\ calls[j].fn = "encryptSymmetric") =>
                   calls[i].record.salt # calls[j].record.salt
            /\ (calls[i].fn = "encryptHybrid" /\ calls[j].fn = "encryptHybrid") =>
                   calls[i].record.ephemeralPublicKey # calls[j].record.ephemeralPublicKey
    /\ \A i \in 1..Len(calls) :
          calls[i].fn = "encryptSymmetric" =>
            /\ UsedKey(calls[i]) =
                   deriveKeyFromPassword(calls[i].pw, base64ToBuffer(calls[i].record.salt))
            /\ UsedIv(calls[i]) = base64ToBuffer(calls[i].record.iv)
            /\ decryptSymmetric(calls[i].record, calls[i].pw).ok

(* the same text encrypted twice under the same password, and twice for the
   same recipient *)
C24_Witness ==
    /\ Len(calls) >= 2
    /\ calls[1].fn = "encryptSymmetric" /\ calls[2].fn = "encryptSymmetric"
    /\ calls[1].pw = calls[2].pw /\ calls[1].text = calls[2].text
    /\ calls[1].record # calls[2].record

C24_WitnessHybrid ==
    /\ Len(calls) >= 2
    /\ calls[1].fn = "encryptHybrid" /\ calls[2].fn = "encryptHybrid"
    /\ calls[1].to = calls[2].to /\ calls[1].text = calls[2].text
    /\ UsedKey(calls[1]) # UsedKey(calls[2])

(* the fields a hash is to depend on, and the key objects that are to fail *)
AgreeOnHashedFields(a, b) ==
    /\ a.kty = b.kty /\ a.kty \in {KtyEC, KtyOKP}
    /\ a.crv = b.crv /\ a.x = b.x
    /\ a.kty = KtyEC => a.y = b.y

LacksRequiredField(o) ==
    \/ o.kty \notin {KtyEC, KtyOKP}
    \/ o.crv = NoMember \/ o.x = NoMember
    \/ o.kty = KtyEC /\ o.y = NoMember

(* C25: getPublicKeyHash depends only on (kty, crv, x, y) for an EC key and
   on (kty, crv, x) for an OKP key: two key objects that agree on these
   fields hash equally, whatever their property order and other fields; and
   it fails for every key object whose kty is neither EC nor OKP or that
   lacks a required field. *)
C25_HashFields ==
    kObject.done =>
        /\ AgreeOnHashedFields(kObject.first, kObject.second) =>
               kObject.firstResult = kObject.secondResult
        /\ LacksRequiredField(kObject.first) => kObject.firstResult = HashError
        /\ LacksRequiredField(kObject.second) => kObject.secondResult = HashError

(* a P-256 key without y *)
C25_Witness ==
    /\ kObject.done
    /\ kObject.first.kty = KtyEC /\ kObject.first.crv # NoMember /\ kObject.first.x = <<65>>
    /\ kObject.first.y = NoMember
    /\ ~kObject.firstResult.ok

(* an OKP key and the same key with a y member; a key and the same key with
   its properties in another order *)
C25_WitnessOtherField ==
    /\ kObject.done
    /\ kObject.first.kty = KtyOKP /\ kObject.first.y # kObject.second.y
    /\ kObject.firstResult.ok /\ kObject.firstResult = kObject.secondResult

C25_WitnessOrder ==
    /\ kObject.done
    /\ kObject.first.layout # kObject.second.layout
    /\ kObject.firstResult.ok /\ kObject.firstResult = kObject.secondResult

----------------------------------------------------------------------------
(* Two files selected one after the other *)

(* what a processFile run on f alone leaves in decodedData and signatureState *)
DataAfter(f) ==
    LET out == ProcessOutcome(f)
    IN  IF out.state \in {"valid", "unsigned"} \/ (out.state = "invalid" /\ out.data # NoObject)
        THEN Data(out.data) ELSE NullData

SignatureStateAfter(f) ==
    LET out == ProcessOutcome(f) IN IF out.state = "error" THEN "null" ELSE out.state

AllRunsFinished == dRuns = {} /\ dSource # NoFile /\ stegoFile # NoFile

(* C27: once every processFile run in flight has finished, decodedData and
   signatureState are those of the selected file, never those of a file
   selected before it.  processFile has no test of whether its file is still
   the selected one, so the run that finishes last wins. *)
C27_SelectedFileWins ==
    AllRunsFinished =>
        /\ decodedData = DataAfter(stegoFile)
        /\ signatureState = SignatureStateAfter(stegoFile)

(* the state the claim excludes: the signed file was selected first, the
   unsigned one second, the run on the signed file finished last *)
C27_LateResultShown ==
    /\ AllRunsFinished
    /\ stegoFile = File("generic", "unsigned", "nobody", 0, Junk)
    /\ dSource = File("generic", "signed", "A", 0, Junk)
    /\ signatureState = "valid"

----------------------------------------------------------------------------
(* The order of the envelope's messages array *)

(* the arrays that hold the entries of a given array in some order *)
Reorderings(entries) ==
    { [i \in 1..Len(entries) |-> entries[f[i]]] : f \in Permutations(1..Len(entries)) }

(* what handleMessageDecrypt shows for a messages array: the text and the
   identity's name, or the error *)
MessageOutcome(entries) ==
    LET r == TryIdentities(identities, entries, 1, "")
    IN  [found |-> r.found, text |-> r.text, name |-> r.name, error |-> r.error]

RunningEntries == MessagesOf(dHandler.data.obj.messages)

(* C23: the outcome of a handleMessageDecrypt run (the plaintext shown, or
   the error reported) is the same for every order of the envelope's
   messages array.  messages.find returns the first entry with the
   identity's hash, so among entries with the same hash the position decides
   which one is decrypted. *)
C23_OrderIrrelevant ==
    dHandler.h = "message" =>
        \A other \in Reorderings(RunningEntries) :
            MessageOutcome(other) = MessageOutcome(RunningEntries)

(* decryptHybrid is called only on an entry whose recipientPublicKeyHash is
   the hash of the public encryption key of the identity at hand *)
DecryptsOnlyMatchingEntries ==
    dHandler.h = "message" =>
        \A i \in 1..Len(identities) :
            LET hash == getPublicKeyHash(EncryptionJwk(identities[i])).hash
                at == FindMessage(RunningEntries, hash)
            IN  at # 0 => RunningEntries[at].recipientPublicKeyHash = hash

(* the order is without effect when no two entries carry the same hash *)
OrderIrrelevantForDistinctHashes ==
    (/\ dHandler.h = "message"
     /\ \A i, j \in 1..Len(RunningEntries) :
            RunningEntries[i].recipientPublicKeyHash = RunningEntries[j].recipientPublicKeyHash
                => i = j)
        => \A other \in Reorderings(RunningEntries) :
               MessageOutcome(other) = MessageOutcome(RunningEntries)

----------------------------------------------------------------------------
(* Properties of the encode tab *)

RunFailed == eLast.outcome \in {"failed", "returned"}
RunSucceeded == eLast.outcome = "ok"
RunSigned == eForm.includeSignature /\ eForm.activeIdentity # "none"

(* C21: a failed call leaves no partial output.  When embedDataInPng fails
   the capacity check, the pixel buffer is still the cover's and no image is
   returned; after a handleEncode run that failed or returned early, the
   encode result is null. *)
C21_NoPartialOutput ==
    /\ RunFailed => eResult.isNull
    /\ eLast.embed = "CapacityExceeded" => (eLast.untouched /\ RunFailed /\ eResult.isNull)

(* the signed payload does not fit the small image *)
C21_Witness ==
    /\ eLast.embed = "CapacityExceeded" /\ eForm.cover = "small image"
    /\ eError = "EncodingFailed" /\ ~eLoading

(* a run on a form with a field missing returns early *)
C21_WitnessEarlyReturn == eLast.outcome = "returned" /\ eError = "PleaseCompleteAllFields"

(* C22: in whatever order the per-recipient tasks settle, the envelope's
   messages array has one entry per selected recipient, in the recipients'
   order, each with the hash of that recipient's public key and decryptable
   by that recipient; when a task fails, no envelope is embedded. *)
C22_TaskOrderIrrelevant ==
    /\ RunSucceeded =>
          /\ Len(eLast.messages) = Len(eForm.recipients)
          /\ \A i \in 1..Len(eForm.recipients) :
                /\ eLast.messages[i].recipientPublicKeyHash
                       = getPublicKeyHash(ContactKey(eForm.recipients[i])).hash
                /\ decryptHybrid(eLast.messages[i], eForm.recipients[i]).ok
          /\ ~eResult.isNull
          /\ LET buf == ExtractFromResult(eResult).data
                 env == IF RunSigned THEN EnvelopeOf(buf) ELSE buf
             IN  MessagesOf(JSONparse(env).obj.messages) = eLast.messages
    /\ eLast.failed # 0 => (eResult.isNull /\ eLast.dataToEmbed = << >> /\ eLast.embed = "none")

(* the task of the second recipient settled before the task of the first *)
C22_Witness == RunSucceeded /\ eLast.order = <<2, 1>>

(* the first task settled, then the second one failed *)
C22_WitnessFailure == eLast.failed = 2 /\ eLast.order = <<1, 2>> /\ eResult.isNull

(* C26: the payload extracted from a file handleEncode produced is
   classified 'valid' when it was built with signing and 'unsigned' when it
   was built without, in both cases with the envelope that was built. *)
C26_EncodeThenClassify ==
    ~eResult.isNull =>
        LET extracted == ExtractFromResult(eResult)
            built == Object("d1", NameOfMessages(eLast.messages),
                            IF RunSigned THEN SigningJwk(eForm.activeIdentity) ELSE Absent)
        IN  /\ extracted.status = "ok"
            /\ extracted.data = eLast.dataToEmbed
            /\ ClassifyPayload(extracted.data)
                   = Outcome(IF RunSigned THEN "valid" ELSE "unsigned", built, "")

C26_Witness == ~eResult.isNull /\ RunSigned /\ ~eResult.isImage

C26_WitnessUnsigned == ~eResult.isNull /\ ~RunSigned /\ eResult.isImage

(* C29: every embedded payload has a decoy record and at least one
   recipient entry, and its envelope has senderPublicKey exactly when the
   envelope's bytes are followed by a 64-byte signature over them; with
   signing requested and no active identity nothing is embedded. *)
C29_EmbeddedPayloadShape ==
    /\ ~eResult.isNull =>
          LET buf == ExtractFromResult(eResult).data
              whole == JSONparse(buf)
              signed == /\ ~whole.ok
                        /\ Len(buf) > Ed25519SignatureLength
                        /\ JSONparse(EnvelopeOf(buf)).ok
              env == IF whole.ok THEN whole.obj ELSE JSONparse(EnvelopeOf(buf)).obj
              appended == /\ signed
                          /\ Len(SignatureOf(buf)) = 64
                          /\ \E owner \in {"A", "E"} :
                                 SignatureOf(buf) = signData(owner, EnvelopeOf(buf))
          IN  /\ whole.ok \/ signed
              /\ Truthy(env.decoy) /\ DecoyOf(env.decoy).ciphertext # << >>
              /\ Len(MessagesOf(env.messages)) >= 1
              /\ Truthy(env.senderPublicKey) <=> appended
    /\ (eForm.includeSignature /\ eForm.activeIdentity = "none") =>
           (eResult.isNull /\ eRun = NoRun)

C29_Witness == ~eResult.isNull /\ RunSigned /\ Len(eLast.messages) = 2

C29_WitnessUnsigned == ~eResult.isNull /\ ~eForm.includeSignature /\ eForm.activeIdentity = "A"

----------------------------------------------------------------------------
(* Specifications: one per component, the other components at rest *)

GAtRest == gFile = <<>> /\ gProv = Raw(<<>>) /\ gResult = NoResult

PAtRest ==
    /\ pixels = CoverPixels(9, "black")
    /\ pProv = [kind |-> "raw", cover |-> pixels, payload |-> <<>>]
    /\ pEmbed = NoEmbed /\ pResult = NoResult

DAtRest == InitDecodeTab /\ identities = << >>

CAtRest ==
    /\ kFirst = NotYet /\ kSecond = NotYet /\ sEnc = NotYet /\ sDec = NotYet
    /\ hEnc = NotYet /\ hDec = NotYet
    /\ kObject = NotYet /\ rng = 0 /\ calls = << >>

EAtRest == InitEncodeTab /\ eForm = EmptyForm

InitGeneric ==
    /\ gFile \in RawCovers /\ gProv = Raw(gFile) /\ gResult = NoResult
    /\ PAtRest /\ DAtRest /\ CAtRest /\ EAtRest

InitPng == GAtRest /\ PAtRest /\ DAtRest /\ CAtRest /\ EAtRest

InitDecode == GAtRest /\ PAtRest /\ InitDecodeTab /\ CAtRest /\ EAtRest

InitCrypto == GAtRest /\ PAtRest /\ DAtRest /\ CAtRest /\ EAtRest

InitEncode == GAtRest /\ PAtRest /\ DAtRest /\ CAtRest /\ InitEncodeTab

SpecGeneric == InitGeneric /\ [][GNext]_vars

SpecPng == InitPng /\ [][PNext]_vars

SpecDecode == InitDecode /\ [][DNext]_vars

SpecCrypto == InitCrypto /\ [][CNext]_vars

SpecEncode == InitEncode /\ [][ENext]_vars

----------------------------------------------------------------------------
(* Both tabs, with the awaited calls settling.  The tabs share no state; a
   behaviour works in one of them.  The decode tab is given two files: on
   one processFile reaches the end of its try block, on the other its catch
   block.

   Fairness: what a handler awaits (the codec, the crypto functions, the
   tasks of Promise.all) settles, so the handler's continuation runs. *)

LiveFiles ==
    { File("generic", "signed", "A", 0, Junk),
      File("generic", "foreign", "nobody", 0, Junk) }

LiveNext ==
    \/ InitEncodeTab /\ \E f \in LiveFiles : DSelectFile(f)
    \/ InitEncodeTab /\ DSelectNothing
    \/ InitEncodeTab /\ \E f \in LiveFiles : DFinishProcess(f)
    \/ InitEncodeTab /\ \E pw \in {"pw", "wrong"} : DSetPassword(pw)
    \/ InitEncodeTab /\ DInvokeDecoy
    \/ InitEncodeTab /\ DFinishDecoy
    \/ InitEncodeTab /\ DInvokeMessage
    \/ InitEncodeTab /\ DFinishMessage
    \/ InitDecodeTab /\ \E form \in Forms : EChangeForm(form)
    \/ InitDecodeTab /\ EInvokeEncode
    \/ InitDecodeTab /\ EEncryptDecoy
    \/ InitDecodeTab /\ \E i \in 1..MaxRecipients : ETaskSettles(i)
    \/ InitDecodeTab /\ EAssembleAndEmbed
    \/ InitDecodeTab /\ EReset

AwaitedCallsSettle ==
    /\ \A f \in LiveFiles : WF_vars(DFinishProcess(f))
    /\ WF_vars(DFinishDecoy)
    /\ WF_vars(DFinishMessage)
    /\ WF_vars(EEncryptDecoy)
    /\ \A i \in 1..MaxRecipients : WF_vars(ETaskSettles(i))
    /\ WF_vars(EAssembleAndEmbed)

InitLive == GAtRest /\ PAtRest /\ CAtRest /\ InitDecodeTab /\ InitEncodeTab

SpecLive == InitLive /\ [][LiveNext]_vars /\ AwaitedCallsSettle

(* C30: every run of processFile, handleDecoyDecrypt, handleMessageDecrypt
   and handleEncode that has set isLoading to true comes to its end, and at
   its end isLoading is false; isLoading is true only while a run is in
   flight, so a handler that returned early has not left it set. *)
C30_LoadingEnds ==
    /\ \A f \in LiveFiles : (f \in dRuns) ~> (f \notin dRuns /\ ~isLoading)
    /\ (dHandler.h = "decoy") ~> (dHandler.h = "none" /\ ~isLoading)
    /\ (dHandler.h = "message") ~> (dHandler.h = "none" /\ ~isLoading)
    /\ (eRun.phase # "idle") ~> (eRun.phase = "idle" /\ ~eLoading)
    /\ [](isLoading => (dRuns # {} \/ dHandler.h # "none"))
    /\ [](eLoading => eRun.phase # "idle")

(* a handleEncode run that went through its catch block has ended with
   isLoading false *)
C30_Witness == eLast.outcome = "failed" /\ eRun.phase = "idle" /\ ~eLoading

(* a processFile run that threw has ended with isLoading false *)
C30_WitnessProcessFile ==
    /\ dSource = File("generic", "foreign", "nobody", 0, Junk)
    /\ dError = "CouldNotReadHiddenData" /\ dRuns = {} /\ ~isLoading

=============================================================================
